---- MODULE Spec2Model ----
(***************************************************************************)
(* Model of the Control batch file-processing service (ControlService,     *)
(* ruleParser, fileParser).                                                *)
(*                                                                         *)
(* Texts are sequences of tokens: a token is a punctuation character       *)
(* ("#", "$", " ", "\n", "@", "/") or an atomic piece of text such as a    *)
(* word or a placeholder ("{{file}}", "{filePath}").                       *)
(*                                                                         *)
(* SubTask objects are shared by reference (the config's array, the arrays *)
(* and objects captured by suspended calls, the progress snapshot), so     *)
(* they live in a heap, subs, and are named by their index in it.  Object  *)
(* identity is opaque: after every step the unreachable objects are        *)
(* dropped and the others renumbered in order.  A suspended async call is  *)
(* a record of conts holding the locals it captured; an await at which     *)
(* other commands can run is a position (pc) of that record.               *)
(***************************************************************************)
EXTENDS Integers, Sequences, FiniteSets, TLC

\* Bounds of the model.
MaxFiles == 2
MaxConts == 1
MaxOverlap == 2
MaxPrompt == 5

\* pieces of agent output in a response given to extractFileListFromResponse
MaxFragments == 3

\* pieces of a prompt given to extractDirectoryFromPrompt
MaxPieces == 4

\* polls of waitForTaskCompletion followed after its timeout
MaxLatePolls == 2

\* largest maxRetries given to callWithRetry
MaxRetries == 4

\* messages in each history of a task given to getTaskResponse
MaxHistory == 2

\* tokens of a text typed into the view
MaxInput == 4

VARIABLES
    subs,                \* heap of SubTask objects, indexed by identity
    currentTask,         \* this.currentTask: a config, or NoTask
    currentProgress,     \* this.currentProgress: last snapshot, or NoProgress
    isProcessing,        \* this.isProcessing
    currentSubTaskIndex, \* this.currentSubTaskIndex
    shouldCancel,        \* this.shouldCancel
    conts,               \* suspended async calls
    foreground,          \* provider.getCurrentTask(): the awaited task that is
                         \* in the foreground, 0 when none of them is
    active,              \* history: a start was accepted and since then no
                         \* terminal snapshot was posted and reset was not called
    ev,                  \* history: what the last step did and posted
    call                 \* a call of a helper function taken on its own: its
                         \* input, its progress and its result

service == <<subs, currentTask, currentProgress, isProcessing, currentSubTaskIndex,
             shouldCancel, conts, foreground, active, ev>>

vars == <<service, call>>

------------------------------------------------------------------------------
\* Text helpers (String.prototype.trim / startsWith / split / includes)

IsSpace(t) == t \in {" ", "\n"}

RECURSIVE TrimStart(_)
TrimStart(s) == IF s # <<>> /\ IsSpace(Head(s)) THEN TrimStart(Tail(s)) ELSE s

RECURSIVE TrimEnd(_)
TrimEnd(s) ==
    IF s # <<>> /\ IsSpace(s[Len(s)]) THEN TrimEnd(SubSeq(s, 1, Len(s) - 1)) ELSE s

Trim(s) == TrimEnd(TrimStart(s))

StartsWith(s, t) == s # <<>> /\ Head(s) = t

Includes(s, t) == \E i \in 1..Len(s) : s[i] = t

\* input.split("\n"): the pieces between the newline tokens
RECURSIVE SplitLines(_)
SplitLines(s) ==
    IF \E i \in 1..Len(s) : s[i] = "\n"
    THEN LET i == CHOOSE k \in 1..Len(s) :
                      s[k] = "\n" /\ \A j \in 1..(k - 1) : s[j] # "\n"
         IN <<SubSeq(s, 1, i - 1)>> \o SplitLines(SubSeq(s, i + 1, Len(s)))
    ELSE <<s>>

\* Array.prototype.find on a sequence of lines: index of the first hit, 0 = none
FindLine(lines, t) ==
    IF \E i \in 1..Len(lines) : StartsWith(lines[i], t)
    THEN CHOOSE i \in 1..Len(lines) :
             StartsWith(lines[i], t) /\ \A j \in 1..(i - 1) : ~StartsWith(lines[j], t)
    ELSE 0

NoText == <<"<undefined>">>

\* No helper call is being looked at
NoCall == [fn |-> "none"]

\* parseRules that strips the marker but not the white space around the rule
parseRulesUntrimmed(input) ==
    LET lines == [i \in 1..Len(SplitLines(input)) |-> Trim(SplitLines(input)[i])]
        d == FindLine(lines, "#")
        p == FindLine(lines, "$")
    IN IF d # 0 /\ p # 0
       THEN [isRuleMode |-> TRUE,
             discoveryRule |-> Tail(lines[d]),
             processingRule |-> Tail(lines[p]),
             originalPrompt |-> NoText]
       ELSE [isRuleMode |-> FALSE,
             discoveryRule |-> NoText,
             processingRule |-> NoText,
             originalPrompt |-> input]

\* A line found by find() is truthy: it begins with its marker, so it is not "".
parseRules(input) ==
    LET lines == [i \in 1..Len(SplitLines(input)) |-> Trim(SplitLines(input)[i])]
        d == FindLine(lines, "#")
        p == FindLine(lines, "$")
    IN IF d # 0 /\ p # 0
       THEN [isRuleMode |-> TRUE,
             discoveryRule |-> Trim(Tail(lines[d])),
             processingRule |-> Trim(Tail(lines[p])),
             originalPrompt |-> NoText]
       ELSE [isRuleMode |-> FALSE,
             discoveryRule |-> NoText,
             processingRule |-> NoText,
             originalPrompt |-> input]

------------------------------------------------------------------------------
\* ruleParser.ts, extractFileListFromResponse.  A response is a text whose
\* tokens are brackets, commas, whole JSON scalars, bullet characters, words
\* and white space, "<fence>" for the three-backtick fence and "<backtick>" for
\* a single backtick; an extracted path is a text.

\* JSON scalars that occur in responses: two string literals, and the number 1
JsonStrings == {"\"f1.ts\"", "\" \""}
JsonValue(t) == IF t = "\"f1.ts\"" THEN <<"f1.ts">> ELSE <<" ">>

NoSpace(s) == SelectSeq(s, LAMBDA t : ~IsSpace(t))

\* JSON.parse(t) returns an array / returns at all
IsJsonArray(t) ==
    LET u == NoSpace(t)
    IN /\ Len(u) >= 2
       /\ u[1] = "["
       /\ u[Len(u)] = "]"
       /\ \/ Len(u) = 2
          \/ /\ Len(u) % 2 = 1
             /\ \A i \in 2..(Len(u) - 1) :
                   IF i % 2 = 0 THEN u[i] \in JsonStrings \cup {"1"} ELSE u[i] = ","

\* parsed.filter(string with non-empty trim).map(trim), on an array text
ValidItems(t) ==
    LET items == SelectSeq(NoSpace(t),
                           LAMBDA x : x \in JsonStrings /\ Trim(JsonValue(x)) # <<>>)
    IN [i \in 1..Len(items) |-> Trim(JsonValue(items[i]))]

\* index of the first token t of s at or after from, 0 when there is none
IndexFrom(s, t, from) ==
    IF \E i \in from..Len(s) : s[i] = t
    THEN CHOOSE i \in from..Len(s) : s[i] = t /\ \A j \in from..(i - 1) : s[j] # t
    ELSE 0

\* attempt 1: response.match(/\[[\s\S]*?\]/), lines 42-55
JsonArrayFiles(response) ==
    LET i == IndexFrom(response, "[", 1)
        j == IF i = 0 THEN 0 ELSE IndexFrom(response, "]", i + 1)
    IN IF j # 0 /\ IsJsonArray(SubSeq(response, i, j))
       THEN ValidItems(SubSeq(response, i, j))
       ELSE <<>>

\* content.split("\n").map(trim).filter(...), lines 72-75
ContentLines(content) ==
    LET lines == [i \in 1..Len(SplitLines(content)) |-> Trim(SplitLines(content)[i])]
    IN SelectSeq(lines, LAMBDA l : l # <<>> /\ ~StartsWith(l, "//") /\ ~StartsWith(l, "#"))

\* attempt 2: the first fenced block, lines 58-80
CodeBlockFiles(response) ==
    LET i == IndexFrom(response, "<fence>", 1)
        j == IF i = 0 THEN 0 ELSE IndexFrom(response, "<fence>", i + 1)
        inner == SubSeq(response, i + 1, j - 1)
        content == TrimStart(IF inner # <<>> /\ Head(inner) \in {"json", "txt", "text"}
                             THEN Tail(inner) ELSE inner)
        IsJson == IsJsonArray(content) \/ NoSpace(content) \in {<<x>> : x \in JsonStrings \cup {"1"}}
    IN IF j = 0 THEN <<>>
       ELSE IF IsJson
            THEN IF IsJsonArray(content) THEN ValidItems(content) ELSE <<>>
            ELSE ContentLines(content)

\* index of the last token of the line that holds token m
LineEnd(s, m) ==
    IF IndexFrom(s, "\n", m) = 0 THEN Len(s) ELSE IndexFrom(s, "\n", m) - 1

\* first token after k that is not white space, 0 when there is none
NextWord(s, k) ==
    IF \E m \in (k + 1)..Len(s) : ~IsSpace(s[m])
    THEN CHOOSE m \in (k + 1)..Len(s) :
             ~IsSpace(s[m]) /\ \A l \in (k + 1)..(m - 1) : IsSpace(s[l])
    ELSE 0

\* /^[\s]*[-*]\s+(.+)$/gm matches with its bullet at k, searching from from
BulletAt(s, from, k) ==
    /\ k \in from..Len(s)
    /\ s[k] \in {"-", "*"}
    /\ \E i \in from..k : (i = 1 \/ s[i - 1] = "\n") /\ \A l \in i..(k - 1) : IsSpace(s[l])
    /\ k < Len(s)
    /\ IsSpace(s[k + 1])
    /\ NextWord(s, k) # 0

\* filePath.replace(/^<backtick>|<backtick>$/g, "")
StripBackticks(t) ==
    LET a == IF t # <<>> /\ Head(t) = "<backtick>" THEN Tail(t) ELSE t
    IN IF a # <<>> /\ a[Len(a)] = "<backtick>" THEN SubSeq(a, 1, Len(a) - 1) ELSE a

\* attempt 3: the exec loop over the bullet lines, lines 83-95
RECURSIVE BulletsFrom(_, _)
BulletsFrom(s, from) ==
    IF \E k \in from..Len(s) : BulletAt(s, from, k)
    THEN LET k == CHOOSE x \in from..Len(s) :
                      BulletAt(s, from, x) /\ \A y \in from..(x - 1) : ~BulletAt(s, from, y)
             m == NextWord(s, k)
             cleanPath == StripBackticks(Trim(SubSeq(s, m, LineEnd(s, m))))
         IN (IF cleanPath # <<>> THEN <<cleanPath>> ELSE <<>>)
                \o BulletsFrom(s, LineEnd(s, m) + 1)
    ELSE <<>>

ListItemFiles(response) == BulletsFrom(response, 1)

\* .replace(/^\d+[.)]\s*/, "").replace(/^quote|quote$/g, "").trim()
CleanPath(trimmed) ==
    LET IsQuote(t) == t \in {"\"", "'", "<backtick>"}
        a == IF trimmed # <<>> /\ Head(trimmed) \in {"1.", "1)"}
             THEN TrimStart(Tail(trimmed)) ELSE trimmed
        b == IF a # <<>> /\ IsQuote(Head(a)) THEN Tail(a) ELSE a
        c == IF b # <<>> /\ IsQuote(b[Len(b)]) THEN SubSeq(b, 1, Len(b) - 1) ELSE b
    IN Trim(c)

\* attempt 4: the lines that look like paths, lines 98-129; a line of more than
\* 300 characters does not occur, and a line ends in a known extension when
\* its last word is a file name
PathLineFiles(response) ==
    LET HasExtension(l) == l[Len(l)] \in {"f1.ts", "f2.ts", "f3.ts", "f4.ts"}
        lines == [i \in 1..Len(SplitLines(response)) |-> Trim(SplitLines(response)[i])]
        kept == SelectSeq(lines, LAMBDA l :
                    /\ l # <<>>
                    /\ ~Includes(l, "文件")
                    /\ ~Includes(l, "File")
                    /\ ~StartsWith(l, "//")
                    /\ ~StartsWith(l, "#")
                    /\ ~StartsWith(l, ">")
                    /\ (Includes(l, "/") \/ Includes(l, "\\") \/ HasExtension(l))
                    /\ CleanPath(l) # <<>>)
    IN [i \in 1..Len(kept) |-> CleanPath(kept[i])]

\* extractFileListFromResponse trying the bullet lines before the fenced block
extractBulletsFirst(response) ==
    IF JsonArrayFiles(response) # <<>> THEN JsonArrayFiles(response)
    ELSE IF ListItemFiles(response) # <<>> THEN ListItemFiles(response)
    ELSE IF CodeBlockFiles(response) # <<>> THEN CodeBlockFiles(response)
    ELSE PathLineFiles(response)

\* each attempt returns when it has found something; the last returns files
extractFileListFromResponse(response) ==
    IF JsonArrayFiles(response) # <<>> THEN JsonArrayFiles(response)
    ELSE IF CodeBlockFiles(response) # <<>> THEN CodeBlockFiles(response)
    ELSE IF ListItemFiles(response) # <<>> THEN ListItemFiles(response)
    ELSE PathLineFiles(response)

------------------------------------------------------------------------------
\* fileParser.ts

\* The shared mention recognizer (mentionRegexGlobal): the at-prefixed tokens of
\* a text, in order.  A mention is "@" followed by a "/"-path, a URL, a commit
\* hash or a reserved keyword, and it ends at the next white space.
MentionStarts(s) ==
    {i \in 1..Len(s) : s[i] = "@" /\ i < Len(s)
                       /\ s[i + 1] \in {"/", "http://", "https://", "a1b2c3d",
                                        "problems", "git-changes", "terminal"}}

MentionEnd(s, i) ==
    IF \E k \in (i + 1)..Len(s) : IsSpace(s[k])
    THEN (CHOOSE k \in (i + 1)..Len(s) :
              IsSpace(s[k]) /\ \A j \in (i + 1)..(k - 1) : ~IsSpace(s[j])) - 1
    ELSE Len(s)

RECURSIVE MatchesFrom(_, _)
MatchesFrom(s, from) ==
    IF \E i \in MentionStarts(s) : i >= from
    THEN LET i == CHOOSE k \in MentionStarts(s) :
                      k >= from /\ \A j \in MentionStarts(s) : j >= from => k <= j
         IN <<SubSeq(s, i, MentionEnd(s, i))>> \o MatchesFrom(s, MentionEnd(s, i) + 1)
    ELSE <<>>

MentionMatches(s) == MatchesFrom(s, 1)

\* String.prototype.replace(match, ""): removes the first occurrence of match
OccursAt(s, m, i) == i + Len(m) - 1 <= Len(s) /\ SubSeq(s, i, i + Len(m) - 1) = m

RemoveFirst(s, m) ==
    IF \E i \in 1..Len(s) : OccursAt(s, m, i)
    THEN LET i == CHOOSE k \in 1..Len(s) :
                      OccursAt(s, m, k) /\ \A j \in 1..(k - 1) : ~OccursAt(s, m, j)
         IN SubSeq(s, 1, i - 1) \o SubSeq(s, i + Len(m), Len(s))
    ELSE s

\* pathStr.replace(/\\ /g, " "): the token "\\ " is an escaped space
Unescape(s) == [i \in 1..Len(s) |-> IF s[i] = "\\ " THEN " " ELSE s[i]]

IsSpecialMention(pathStr) ==
    \/ pathStr \in {<<"problems">>, <<"git-changes">>, <<"terminal">>}
    \/ StartsWith(pathStr, "http://")
    \/ StartsWith(pathStr, "https://")
    \/ pathStr = <<"a1b2c3d">>

NoPath(prompt) == [directory |-> <<>>, hasPath |-> FALSE, cleanedPrompt |-> prompt]

RECURSIVE FirstDirectory(_, _)
FirstDirectory(prompt, matches) ==
    IF matches = <<>> THEN NoPath(prompt)
    ELSE LET match == Head(matches)
             pathStr == Trim(Tail(Trim(match)))
         IN IF IsSpecialMention(pathStr) THEN FirstDirectory(prompt, Tail(matches))
            ELSE IF StartsWith(pathStr, "/")
                 THEN [directory |-> Tail(Unescape(pathStr)),
                       hasPath |-> TRUE,
                       cleanedPrompt |-> Trim(RemoveFirst(prompt, match))]
                 ELSE FirstDirectory(prompt, Tail(matches))

extractDirectoryFromPrompt(prompt) == FirstDirectory(prompt, MentionMatches(prompt))

------------------------------------------------------------------------------
\* Inputs: what the user, the file system, the agent and the completion
\* transport can supply.

FileName == <<"f1.ts", "f2.ts", "f3.ts", "f4.ts">>

\* A path is a text: <<"f1.ts">>, or <<"/", "f1.ts">> with a leading slash.
ExistingFiles == {<<FileName[i]>> : i \in 1..MaxFiles}
MissingFile == <<"missing.ts">>

DescList(k) == [i \in 1..k |-> <<FileName[k + 1 - i]>>]
AscList(k) == [i \in 1..k |-> <<FileName[i]>>]

\* Non-empty results of extractFileListFromResponse on the discovery response
DiscoveryCandidates ==
    {DescList(k) : k \in 1..MaxFiles}
        \cup {<<MissingFile>>}
        \cup {<<MissingFile>> \o [i \in 1..MaxFiles |-> <<"/">> \o DescList(MaxFiles)[i]]}

\* Results of getFilteredFiles
ListedFiles == {AscList(k) : k \in 0..MaxFiles}

RulePrompt == <<"#", "ts files", "\n", "$", "add docs">>
LegacyPrompt == <<"add docs">>
LegacyDirPrompt == <<"@", "/", "src", " ", "add docs">>
EmptyPrompt == <<>>
StartPrompts == {RulePrompt, LegacyPrompt, LegacyDirPrompt, EmptyPrompt}

\* Outcomes of callWithRetry(singleCompletionHandler): a text, or all retries failed
TransportResults ==
    {[ok |-> TRUE, text |-> <<"do", "{{file}}", " ">>],
     [ok |-> TRUE, text |-> <<"do", "{filePath}">>],
     [ok |-> FALSE, text |-> <<>>]}

------------------------------------------------------------------------------
\* Data (types.ts)

NoTask == [undefined |-> TRUE]
NoProgress == [status |-> "<undefined>"]
NoTemplate == NoText
DiscoveryPath == <<"[discovery]">>

\* startTime, endTime, error, taskId: whether the field is set.  startTime is
\* written when the sub-task becomes RUNNING and is never cleared.
SubTask(filePath, status) ==
    [filePath |-> filePath, status |-> status, enabled |-> TRUE,
     startTime |-> (status = "RUNNING"),
     endTime |-> FALSE, error |-> FALSE, taskId |-> FALSE]

Config(files, subTasks, isRuleMode) ==
    [files |-> files, subTasks |-> subTasks, isRuleMode |-> isRuleMode,
     instructionTemplate |-> NoTemplate]

Progress(status, idx, total, done, failed, cur) ==
    [status |-> status, currentFileIndex |-> idx, totalFiles |-> total,
     completedCount |-> done, failedCount |-> failed, currentSubTask |-> cur]

\* subTasks.filter((t) => t.status === st).length
CountStatus(S, ids, st) == Cardinality({i \in 1..Len(ids) : S[ids[i]].status = st})

\* A suspended async call and the locals it captured
NoLocals ==
    [sub |-> 0, index |-> 0, subTasks |-> <<>>, startIndex |-> 0, files |-> <<>>,
     text |-> <<>>, userPrompt |-> <<>>]

Cont(id, pc, f) ==
    [id |-> id, pc |-> pc, sub |-> f.sub, index |-> f.index, subTasks |-> f.subTasks,
     startIndex |-> f.startIndex, files |-> f.files, text |-> f.text,
     userPrompt |-> f.userPrompt]

Locals(c) ==
    [sub |-> c.sub, index |-> c.index, subTasks |-> c.subTasks,
     startIndex |-> c.startIndex, files |-> c.files, text |-> c.text,
     userPrompt |-> c.userPrompt]

------------------------------------------------------------------------------
\* The service's fields as one value b, so that a handler is the composition
\* of its statements.  b.out collects the snapshots the step posts, b.hints the
\* view-routing actions.

Fields ==
    [subs |-> subs, currentTask |-> currentTask, currentProgress |-> currentProgress,
     isProcessing |-> isProcessing, currentSubTaskIndex |-> currentSubTaskIndex,
     shouldCancel |-> shouldCancel, conts |-> conts, foreground |-> foreground,
     out |-> <<>>, hints |-> <<>>]

\* this.currentTask?.subTasks || []
SubTasksOf(b) == IF b.currentTask = NoTask THEN <<>> ELSE b.currentTask.subTasks

sendProgressUpdate(b, progress) ==
    [b EXCEPT !.currentProgress = progress,
              !.out = Append(@, [progress |-> progress, subTasks |-> SubTasksOf(b)])]

postAction(b, action) == [b EXCEPT !.hints = Append(@, action)]

cleanup(b) ==
    [b EXCEPT !.isProcessing = FALSE, !.currentSubTaskIndex = -1,
              !.shouldCancel = FALSE]

\* the async call c is suspended at pc with locals f / has returned
suspend(b, c, pc, f) == [b EXCEPT !.conts = (@ \ {c}) \cup {Cont(c.id, pc, f)}]
return(b, c) == [b EXCEPT !.conts = @ \ {c}]

\* catch block of startControlTask
startFailed(b) ==
    LET ids == SubTasksOf(b)
        total == IF b.currentTask = NoTask THEN 0 ELSE Len(b.currentTask.files)
    IN postAction(
         cleanup(
           sendProgressUpdate(b,
             Progress("FAILED", b.currentSubTaskIndex + 1, total,
                      CountStatus(b.subs, ids, "COMPLETED"),
                      CountStatus(b.subs, ids, "FAILED"), 0))),
         "controlButtonClicked")

\* completeAllTasks that cleans up without posting the COMPLETED snapshot
completeSilently(b) ==
    IF b.currentTask = NoTask THEN b
    ELSE postAction(cleanup(b), "controlButtonClicked")

completeAllTasks(b) ==
    IF b.currentTask = NoTask THEN b
    ELSE LET ids == SubTasksOf(b)
         IN postAction(
              cleanup(
                sendProgressUpdate(b,
                  Progress("COMPLETED", Len(ids), Len(ids),
                           CountStatus(b.subs, ids, "COMPLETED"),
                           CountStatus(b.subs, ids, "FAILED"), 0))),
              "controlButtonClicked")

------------------------------------------------------------------------------
\* Template synthesis

LeadIn == <<"apply to ", "{{file}}", ": ">>

\* ruleTemplate with no fallback when callWithRetry threw
ruleTemplateNoFallback(res, processingRule) ==
    IF res.ok
    THEN IF Includes(Trim(res.text), "{{file}}") THEN Trim(res.text)
         ELSE LeadIn \o Trim(res.text)
    ELSE NoTemplate

\* generateInstructionTemplateFromRule, after callWithRetry returned or threw
ruleTemplate(res, processingRule) ==
    IF res.ok
    THEN IF Includes(Trim(res.text), "{{file}}") THEN Trim(res.text)
         ELSE LeadIn \o Trim(res.text)
    ELSE LeadIn \o processingRule

\* generateInstructionTemplate, after callWithRetry returned or threw
legacyTemplate(res, userPrompt) == IF res.ok THEN Trim(res.text) ELSE userPrompt

\* if (this.currentTask) { this.currentTask.instructionTemplate = template }
setTemplate(b, template) ==
    IF b.currentTask = NoTask THEN b
    ELSE [b EXCEPT !.currentTask.instructionTemplate = template]

------------------------------------------------------------------------------
\* startControlTask, Rule Mode

\* startAccepted without the processing guard being taken
startUnguarded(b) == [b EXCEPT !.shouldCancel = FALSE]

\* lines 139-140
startAccepted(b) == [b EXCEPT !.isProcessing = TRUE, !.shouldCancel = FALSE]

startRuleModeTask(b) ==
    LET disc == Len(b.subs) + 1
        b1 == [b EXCEPT !.subs = Append(@, SubTask(DiscoveryPath, "RUNNING")),
                        !.currentTask = Config(<<>>, <<disc>>, TRUE)]
    IN sendProgressUpdate(b1, Progress("DISCOVERING_FILES", 0, 1, 0, 0, 0))

\* discoveryFailed that leaves the discovery sub-task as it is
discoveryFailedUnmarked(b, disc) ==
    postAction(sendProgressUpdate(b, Progress("FAILED", 1, 1, 0, 1, 0)),
               "controlButtonClicked")

\* catch block of startRuleModeTask
discoveryFailed(b, disc) ==
    LET b1 == [b EXCEPT !.subs[disc].status = "FAILED",
                        !.subs[disc].endTime = TRUE,
                        !.subs[disc].error = TRUE]
    IN postAction(sendProgressUpdate(b1, Progress("FAILED", 1, 1, 0, 1, 0)),
                  "controlButtonClicked")

\* lines 253-277: createTask returned, the task is in the foreground
discoveryCreated(b, c) ==
    LET b1 == [b EXCEPT !.subs[c.sub].taskId = TRUE, !.foreground = c.id]
    IN postAction(sendProgressUpdate(b1, Progress("DISCOVERING_FILES", 0, 1, 0, 0, 0)),
                  "hideControlView")

\* file.startsWith("/") ? file.substring(1) : file
StripSlash(file) == IF StartsWith(file, "/") THEN Tail(file) ELSE file

\* ValidFiles without the fs.stat test
RECURSIVE ValidFilesUnchecked(_)
ValidFilesUnchecked(files) ==
    IF files = <<>> THEN <<>>
    ELSE <<StripSlash(Head(files))>> \o ValidFilesUnchecked(Tail(files))

RECURSIVE ValidFiles(_)
ValidFiles(files) ==
    IF files = <<>> THEN <<>>
    ELSE LET filePath == StripSlash(Head(files))
         IN (IF filePath \in ExistingFiles THEN <<filePath>> ELSE <<>>)
                \o ValidFiles(Tail(files))

\* lines 324-387: discovery succeeded, the per-file sub-tasks are materialized;
\* this.currentTask.files = ... throws a TypeError when currentTask is undefined
materialize(b, disc, validFiles) ==
    LET b1 == [b EXCEPT !.subs[disc].status = "COMPLETED", !.subs[disc].endTime = TRUE]
        n == Len(validFiles)
        base == Len(b.subs)
        b2 == [b1 EXCEPT
                 !.subs = @ \o [i \in 1..n |-> SubTask(validFiles[i], "PENDING")]]
        ids == <<disc>> \o [i \in 1..n |-> base + i]
    IN IF b.currentTask = NoTask THEN startFailed(b1)
       ELSE LET b3 == [b2 EXCEPT !.currentTask.files = validFiles,
                                 !.currentTask.subTasks = ids]
            IN postAction(
                 sendProgressUpdate(b3,
                   Progress("GENERATING_TEMPLATE", 1, Len(ids), 1, 0, 0)),
                 "controlButtonClicked")

\* generateInstructionTemplateFromRule up to its first await; when it returns
\* early, line 392 reads this.currentTask.instructionTemplate and throws
ruleTemplateBegin(b, files) ==
    IF b.currentTask = NoTask THEN startFailed(b)
    ELSE sendProgressUpdate(b, Progress("GENERATING_TEMPLATE", 0, Len(files), 0, 0, 0))

\* lines 689-406
ruleTemplateDone(b, res, processingRule) ==
    IF b.currentTask = NoTask THEN startFailed(b)
    ELSE LET b1 == setTemplate(b, ruleTemplate(res, processingRule))
         IN sendProgressUpdate(b1,
              Progress("PROCESSING", 1, Len(SubTasksOf(b1)), 1, 0, 0))

------------------------------------------------------------------------------
\* startControlTask, Legacy Mode

legacyParsing(b) == sendProgressUpdate(b, Progress("PARSING", 0, 0, 0, 0, 0))

\* lines 467-483 and generateInstructionTemplate up to its first await
legacyListed(b, files) ==
    LET n == Len(files)
        base == Len(b.subs)
        ids == [i \in 1..n |-> base + i]
        b1 == [b EXCEPT
                 !.subs = @ \o [i \in 1..n |-> SubTask(files[i], "PENDING")],
                 !.currentTask = Config(files, ids, FALSE)]
    IN sendProgressUpdate(b1, Progress("GENERATING_TEMPLATE", 0, n, 0, 0, 0))

\* lines 604-616 and 487-494
legacyTemplateDone(b, res, prompt, subTasks) ==
    sendProgressUpdate(setTemplate(b, legacyTemplate(res, prompt)),
                       Progress("PROCESSING", 0, Len(subTasks), 0, 0, 0))

------------------------------------------------------------------------------
\* continueNextTask, processSingleTaskAtIndex, processSingleFile

StartIndexOf(b) == IF b.currentTask.isRuleMode THEN 1 ELSE 0

\* Schedulable that looks at the enabled flag only, not at the status
SchedulableAnyStatus(S, ids, startIndex) ==
    {k \in 1..Len(ids) : /\ k - 1 >= startIndex
                         /\ S[ids[k]].enabled}

\* (t, index) => index >= startIndex && t.enabled && t.status === PENDING,
\* on the array ids whose element k (from 1) has index k - 1
Schedulable(S, ids, startIndex) ==
    {k \in 1..Len(ids) : /\ k - 1 >= startIndex
                         /\ S[ids[k]].enabled
                         /\ S[ids[k]].status = "PENDING"}

\* FindNext scanning from the end of the array
FindLast(S, ids, startIndex) ==
    IF Schedulable(S, ids, startIndex) = {} THEN 0
    ELSE CHOOSE k \in Schedulable(S, ids, startIndex) :
             \A j \in Schedulable(S, ids, startIndex) : k >= j

\* subTasks.findIndex(...): the first such element, 0 when findIndex gives -1
FindNext(S, ids, startIndex) ==
    IF Schedulable(S, ids, startIndex) = {} THEN 0
    ELSE CHOOSE k \in Schedulable(S, ids, startIndex) :
             \A j \in Schedulable(S, ids, startIndex) : k <= j

\* const { subTasks, instructionTemplate } = this.currentTask, and the other
\* locals of processSingleTaskAtIndex(k - 1)
DispatchLocals(b, k) ==
    [NoLocals EXCEPT
       !.sub = SubTasksOf(b)[k], !.index = k - 1, !.subTasks = SubTasksOf(b),
       !.startIndex = StartIndexOf(b),
       !.text = IF b.currentTask.instructionTemplate = NoTemplate THEN <<>>
                ELSE b.currentTask.instructionTemplate]

\* processSingleTaskAtIndex up to its first await; k is the element, k - 1 its index
dispatch(b, k, id) ==
    LET ids == SubTasksOf(b)
        b1 == [b EXCEPT !.subs[ids[k]].status = "RUNNING",
                        !.subs[ids[k]].startTime = TRUE,
                        !.conts = @ \cup {Cont(id, "fileCreate", DispatchLocals(b, k))}]
    IN postAction(
         sendProgressUpdate(b1,
           Progress("PROCESSING", k - 1, Len(ids),
                    CountStatus(b1.subs, ids, "COMPLETED"),
                    CountStatus(b1.subs, ids, "FAILED"), ids[k])),
         "hideControlView")

\* template.replace(/placeholder/g, `@/${filePath}`)
RECURSIVE ReplaceAll(_, _, _)
ReplaceAll(template, placeholder, with) ==
    IF template = <<>> THEN <<>>
    ELSE (IF Head(template) = placeholder THEN with ELSE <<Head(template)>>)
             \o ReplaceAll(Tail(template), placeholder, with)

\* lines 991-1000
Instruction(b, template, filePath) ==
    LET isRuleMode == b.currentTask # NoTask /\ b.currentTask.isRuleMode
    IN ReplaceAll(template, IF isRuleMode THEN "{{file}}" ELSE "{filePath}",
                  <<"@", "/">> \o filePath)

\* lines 1007-1026: createTask returned, the task is in the foreground
fileCreated(b, c) ==
    LET b1 == [b EXCEPT !.subs[c.sub].taskId = TRUE, !.foreground = c.id]
        ids == SubTasksOf(b1)
    IN IF b.currentTask = NoTask THEN b1
       ELSE sendProgressUpdate(b1,
              Progress("PROCESSING", b.currentSubTaskIndex, Len(ids),
                       CountStatus(b1.subs, ids, "COMPLETED"),
                       CountStatus(b1.subs, ids, "FAILED"), c.sub))

\* fileFinished where a failed sub-task fails the whole run
fileFinishedAborts(b, c, ok) ==
    LET b1 == [b EXCEPT !.subs[c.sub].status = IF ok THEN "COMPLETED" ELSE "FAILED",
                        !.subs[c.sub].error = IF ok THEN @ ELSE TRUE,
                        !.subs[c.sub].endTime = TRUE]
        b2 == sendProgressUpdate(b1,
                Progress("PROCESSING", c.index + 1, Len(c.subTasks),
                         CountStatus(b1.subs, c.subTasks, "COMPLETED"),
                         CountStatus(b1.subs, c.subTasks, "FAILED"), c.sub))
    IN IF ~ok THEN startFailed(b1)
       ELSE IF Schedulable(b1.subs, c.subTasks, c.startIndex) = {}
            THEN completeAllTasks(b2)
            ELSE postAction(b2, "controlButtonClicked")

\* processSingleTaskAtIndex after processSingleFile returned (ok) or threw
fileFinished(b, c, ok) ==
    LET b1 == [b EXCEPT !.subs[c.sub].status = IF ok THEN "COMPLETED" ELSE "FAILED",
                        !.subs[c.sub].error = IF ok THEN @ ELSE TRUE,
                        !.subs[c.sub].endTime = TRUE]
        b2 == sendProgressUpdate(b1,
                Progress("PROCESSING", c.index + 1, Len(c.subTasks),
                         CountStatus(b1.subs, c.subTasks, "COMPLETED"),
                         CountStatus(b1.subs, c.subTasks, "FAILED"), c.sub))
    IN IF Schedulable(b1.subs, c.subTasks, c.startIndex) = {}
       THEN completeAllTasks(b2)
       ELSE postAction(b2, "controlButtonClicked")

continueNextTask(b, id) ==
    IF b.currentTask = NoTask THEN b
    ELSE IF FindNext(b.subs, SubTasksOf(b), StartIndexOf(b)) = 0
         THEN completeAllTasks(b)
         ELSE dispatch(b, FindNext(b.subs, SubTasksOf(b), StartIndexOf(b)), id)

------------------------------------------------------------------------------
\* toggleTaskEnabled, cancelTask, reset

toggleProgress(b, ids) ==
    sendProgressUpdate(b,
      Progress("PROCESSING", b.currentSubTaskIndex + 1, Len(ids),
               CountStatus(b.subs, ids, "COMPLETED"),
               CountStatus(b.subs, ids, "FAILED"), 0))

\* toggleTaskEnabled that also puts back a RUNNING, COMPLETED or FAILED sub-task
toggleAnyStatus(b, taskId) ==
    LET ids == SubTasksOf(b)
        enable == [b EXCEPT !.subs[taskId].enabled = TRUE,
                            !.subs[taskId].status = "PENDING",
                            !.subs[taskId].error = FALSE,
                            !.subs[taskId].endTime = FALSE]
        disable == [b EXCEPT !.subs[taskId].enabled = FALSE,
                             !.subs[taskId].status = "CANCELLED",
                             !.subs[taskId].endTime = TRUE]
    IN IF b.currentTask = NoTask \/ ~(\E k \in 1..Len(ids) : ids[k] = taskId) THEN b
       ELSE IF b.subs[taskId].status = "PENDING"
            THEN toggleProgress(IF b.subs[taskId].enabled THEN disable ELSE enable, ids)
            ELSE toggleProgress(enable, ids)

\* toggleTaskEnabled whose re-enabling leaves the end time of the sub-task
toggleKeepsEndTime(b, taskId) ==
    LET ids == SubTasksOf(b)
        enable == [b EXCEPT !.subs[taskId].enabled = TRUE,
                            !.subs[taskId].status = "PENDING",
                            !.subs[taskId].error = FALSE]
        disable == [b EXCEPT !.subs[taskId].enabled = FALSE,
                             !.subs[taskId].status = "CANCELLED",
                             !.subs[taskId].endTime = TRUE]
    IN IF b.currentTask = NoTask \/ ~(\E k \in 1..Len(ids) : ids[k] = taskId) THEN b
       ELSE IF b.subs[taskId].status = "PENDING"
            THEN toggleProgress(IF b.subs[taskId].enabled THEN disable ELSE enable, ids)
            ELSE IF b.subs[taskId].status = "CANCELLED"
                 THEN toggleProgress(enable, ids)
                 ELSE b

toggleTaskEnabled(b, taskId) ==
    LET ids == SubTasksOf(b)
        enable == [b EXCEPT !.subs[taskId].enabled = TRUE,
                            !.subs[taskId].status = "PENDING",
                            !.subs[taskId].error = FALSE,
                            !.subs[taskId].endTime = FALSE]
        disable == [b EXCEPT !.subs[taskId].enabled = FALSE,
                             !.subs[taskId].status = "CANCELLED",
                             !.subs[taskId].endTime = TRUE]
    IN IF b.currentTask = NoTask \/ ~(\E k \in 1..Len(ids) : ids[k] = taskId) THEN b
       ELSE IF b.subs[taskId].status = "PENDING"
            THEN toggleProgress(IF b.subs[taskId].enabled THEN disable ELSE enable, ids)
            ELSE IF b.subs[taskId].status = "CANCELLED"
                 THEN toggleProgress(enable, ids)
                 ELSE b

\* cancelSubTasks leaving a RUNNING sub-task as it is
cancelPendingOnly(S, ids) ==
    [i \in 1..Len(S) |->
        IF (\E k \in 1..Len(ids) : ids[k] = i) /\ S[i].status = "PENDING"
        THEN [S[i] EXCEPT !.status = "CANCELLED", !.enabled = FALSE, !.endTime = TRUE]
        ELSE S[i]]

\* cancelSubTasks that leaves the enabled flag as it is
cancelKeepsEnabled(S, ids) ==
    [i \in 1..Len(S) |->
        IF (\E k \in 1..Len(ids) : ids[k] = i) /\ S[i].status \in {"PENDING", "RUNNING"}
        THEN [S[i] EXCEPT !.status = "CANCELLED", !.endTime = TRUE]
        ELSE S[i]]

\* lines 1200-1207
cancelSubTasks(S, ids) ==
    [i \in 1..Len(S) |->
        IF (\E k \in 1..Len(ids) : ids[k] = i) /\ S[i].status \in {"PENDING", "RUNNING"}
        THEN [S[i] EXCEPT !.status = "CANCELLED", !.enabled = FALSE, !.endTime = TRUE]
        ELSE S[i]]

cancelTask(b) ==
    IF b.currentTask = NoTask THEN b
    ELSE LET ids == SubTasksOf(b)
             b1 == [b EXCEPT !.shouldCancel = TRUE,
                             !.isProcessing = FALSE,
                             !.subs = cancelSubTasks(b.subs, ids)]
         IN postAction(
              cleanup(
                sendProgressUpdate(b1,
                  Progress("CANCELLED", Len(ids), Len(ids),
                           CountStatus(b1.subs, ids, "COMPLETED"),
                           CountStatus(b1.subs, ids, "FAILED"), 0))),
              "controlButtonClicked")

reset(b) ==
    [b EXCEPT !.currentTask = NoTask, !.currentProgress = NoProgress,
              !.isProcessing = FALSE, !.currentSubTaskIndex = -1,
              !.shouldCancel = FALSE]

------------------------------------------------------------------------------
\* A step: the fields after the handler ran, with the heap compacted

Range(s) == {s[i] : i \in 1..Len(s)}

TerminalStatus == {"COMPLETED", "FAILED", "CANCELLED"}

\* cont is the async call that took the step; it is not kept in ev.  before is
\* the aggregate status the view was last sent before the step.  transport is
\* how the completion transport answered in a step that ends callWithRetry;
\* candidates is the extracted file list in the step that ends its validation.
Event(op, cont, sub, b) ==
    [op |-> op, sub |-> sub, before |-> currentProgress.status, out |-> b.out,
     hints |-> b.hints, instruction |-> NoText, transport |-> "none",
     candidates |-> NoText]

NoEvent == [op |-> "init", sub |-> 0, before |-> NoProgress.status, out |-> <<>>,
            hints |-> <<>>, instruction |-> NoText, transport |-> "none",
            candidates |-> NoText]

\* callWithRetry returned a text, or threw after its last attempt
Answered(res) == IF res.ok THEN "ok" ELSE "failed"

\* The SubTask objects some reference still leads to
Reachable(b, e) ==
    (Range(SubTasksOf(b))
        \cup UNION {Range(c.subTasks) \cup {c.sub} : c \in b.conts}
        \cup (IF b.currentProgress = NoProgress THEN {}
              ELSE {b.currentProgress.currentSubTask})
        \cup {e.sub}
        \cup UNION {Range(e.out[i].subTasks) \cup {e.out[i].progress.currentSubTask} :
                      i \in 1..Len(e.out)}) \ {0}

NewName(L, i) == Cardinality({j \in L : j <= i})
NewNames(L, ids) == [k \in 1..Len(ids) |-> NewName(L, ids[k])]
NewProgress(L, p) ==
    IF p = NoProgress THEN p ELSE [p EXCEPT !.currentSubTask = NewName(L, @)]

Commit(b0, e0) ==
    \E b \in {b0}, e \in {e0} : \E L \in {Reachable(b, e)} :
       /\ subs' = [k \in 1..Cardinality(L) |->
                      b.subs[CHOOSE j \in L : NewName(L, j) = k]]
       /\ currentTask' = IF b.currentTask = NoTask THEN NoTask
                         ELSE [b.currentTask EXCEPT !.subTasks = NewNames(L, @)]
       /\ currentProgress' = NewProgress(L, b.currentProgress)
       /\ isProcessing' = b.isProcessing
       /\ currentSubTaskIndex' = b.currentSubTaskIndex
       /\ shouldCancel' = b.shouldCancel
       /\ conts' = {[c EXCEPT !.sub = NewName(L, @), !.subTasks = NewNames(L, @)] :
                      c \in b.conts}
       /\ foreground' = IF \E c \in b.conts : c.id = b.foreground THEN b.foreground
                        ELSE 0
       /\ active' = IF e.op = "start" THEN TRUE
                    ELSE IF \/ e.op = "reset"
                            \/ \E i \in 1..Len(e.out) :
                                  e.out[i].progress.status \in TerminalStatus
                         THEN FALSE
                         ELSE active
       /\ ev' = [e EXCEPT
                   !.sub = NewName(L, @),
                   !.out = [i \in 1..Len(e.out) |->
                              [progress |-> NewProgress(L, e.out[i].progress),
                               subTasks |-> NewNames(L, e.out[i].subTasks)]]]
       /\ call' = call

\* The handle of a new async call: the least one no suspended call holds
FreshId == CHOOSE i \in 1..(Cardinality(conts) + 1) :
               /\ \A c \in conts : c.id # i
               /\ \A j \in 1..(i - 1) : \E c \in conts : c.id = j

------------------------------------------------------------------------------
\* The state machine

\* The service after construction
Quiet ==
    /\ subs = <<>>
    /\ currentTask = NoTask
    /\ currentProgress = NoProgress
    /\ isProcessing = FALSE
    /\ currentSubTaskIndex = -1
    /\ shouldCancel = FALSE
    /\ conts = {}
    /\ foreground = 0
    /\ active = FALSE
    /\ ev = NoEvent

Init == Quiet /\ call = NoCall

\* startControlTask while isProcessing: a warning is shown and nothing else
StartRejected ==
    /\ isProcessing
    /\ Commit(Fields, Event("startRejected", 0, 0, Fields))

\* startControlTask up to its first await
StartControlTask(userPrompt) ==
    /\ ~isProcessing
    /\ LET b0 == startAccepted(Fields)
           rules == parseRules(userPrompt)
           pathInfo == extractDirectoryFromPrompt(rules.originalPrompt)
           targetDirectory == IF pathInfo.hasPath THEN pathInfo.directory ELSE <<>>
           effectivePrompt == IF pathInfo.cleanedPrompt # <<>> THEN pathInfo.cleanedPrompt
                              ELSE rules.originalPrompt
           f == [NoLocals EXCEPT !.text = effectivePrompt,
                                !.userPrompt = rules.originalPrompt]
           b == IF rules.isRuleMode
                THEN suspend(startRuleModeTask(b0), [id |-> FreshId], "discCreate",
                             [NoLocals EXCEPT !.sub = Len(subs) + 1,
                                              !.text = rules.processingRule])
                ELSE IF targetDirectory # <<>>
                     THEN suspend(legacyParsing(b0), [id |-> FreshId], "legValidate", f)
                     ELSE suspend(legacyParsing(legacyParsing(b0)), [id |-> FreshId],
                                  "legList", f)
       IN Commit(b, Event("start", FreshId, 0, b))

\* provider.createTask(discoveryPrompt) returns, or throws
DiscoveryCreated(c, ok) ==
    /\ c.pc = "discCreate"
    /\ LET b == IF ok THEN suspend(discoveryCreated(Fields, c), c, "discWait", Locals(c))
                ELSE return(discoveryFailed(Fields, c.sub), c)
       IN Commit(b, Event(IF ok THEN "discoveryCreated" ELSE "discoveryFailed",
                          c.id, c.sub, b))

\* waitForTaskCompletion(discoveryTask) resolves; the response is read and parsed
DiscoveryResolved(c, empty) ==
    /\ c.pc = "discWait"
    /\ foreground # c.id
    /\ LET b1 == sendProgressUpdate(Fields, Progress("PARSING", 1, 1, 0, 0, 0))
           b == IF empty THEN return(discoveryFailed(b1, c.sub), c)
                ELSE suspend(b1, c, "discValidate", Locals(c))
       IN Commit(b, Event(IF empty THEN "discoveryFailed" ELSE "discoveryResolved",
                          c.id, c.sub, b))

\* waitForTaskCompletion(discoveryTask) rejects after 5 minutes
DiscoveryTimeout(c) ==
    /\ c.pc = "discWait"
    /\ foreground = c.id
    /\ LET b == return(discoveryFailed(Fields, c.sub), c)
       IN Commit(b, Event("discoveryFailed", c.id, c.sub, b))

\* the fs.stat loop over the candidate files has finished
DiscoveryValidated(c, files) ==
    /\ c.pc = "discValidate"
    /\ LET validFiles == ValidFiles(files)
           b == IF validFiles = <<>> THEN return(discoveryFailed(Fields, c.sub), c)
                ELSE IF currentTask = NoTask
                     THEN return(materialize(Fields, c.sub, validFiles), c)
                     ELSE suspend(materialize(Fields, c.sub, validFiles), c,
                                  "ruleTemplate", [Locals(c) EXCEPT !.files = validFiles])
       IN Commit(b, [Event(IF validFiles = <<>> THEN "discoveryFailed"
                           ELSE IF currentTask = NoTask THEN "startFailed"
                                ELSE "materialized",
                           c.id, c.sub, b) EXCEPT !.candidates = files])

\* generateInstructionTemplateFromRule is entered
RuleTemplateBegin(c) ==
    /\ c.pc = "ruleTemplate"
    /\ LET b == IF currentTask = NoTask THEN return(ruleTemplateBegin(Fields, c.files), c)
                ELSE suspend(ruleTemplateBegin(Fields, c.files), c, "ruleTemplateCall",
                             Locals(c))
       IN Commit(b, Event(IF currentTask = NoTask THEN "startFailed" ELSE "templateBegin",
                          c.id, 0, b))

\* callWithRetry has returned or thrown; startRuleModeTask runs to its end
RuleTemplateDone(c, res) ==
    /\ c.pc = "ruleTemplateCall"
    /\ LET b == return(ruleTemplateDone(Fields, res, c.text), c)
       IN Commit(b, [Event(IF currentTask = NoTask THEN "startFailed" ELSE "started",
                           c.id, 0, b) EXCEPT !.transport = Answered(res)])

\* validateDirectory has answered
LegacyValidated(c, exists) ==
    /\ c.pc = "legValidate"
    /\ LET b == IF exists THEN suspend(legacyParsing(Fields), c, "legList", Locals(c))
                ELSE return(startFailed(Fields), c)
       IN Commit(b, Event(IF exists THEN "legacyValidated" ELSE "startFailed",
                          c.id, 0, b))

\* getFilteredFiles has answered
LegacyListed(c, files) ==
    /\ c.pc = "legList"
    /\ LET b == IF files = <<>> THEN return(startFailed(Fields), c)
                ELSE suspend(legacyListed(Fields, files), c, "legTemplateCall",
                             [Locals(c) EXCEPT
                                !.files = files,
                                !.subTasks = [i \in 1..Len(files) |-> Len(subs) + i]])
       IN Commit(b, Event(IF files = <<>> THEN "startFailed" ELSE "materialized",
                          c.id, 0, b))

\* callWithRetry has returned or thrown; startTraditionalModeTask runs to its end
LegacyTemplateDone(c, res) ==
    /\ c.pc = "legTemplateCall"
    /\ LET b == return(legacyTemplateDone(Fields, res, c.text, c.subTasks), c)
       IN Commit(b, [Event("started", c.id, 0, b) EXCEPT !.transport = Answered(res)])

\* continueNextTask up to its first await, or to its end when nothing is dispatched
ContinueNextTask ==
    LET b == continueNextTask(Fields, FreshId)
        k == IF currentTask = NoTask THEN 0
             ELSE FindNext(subs, SubTasksOf(Fields), StartIndexOf(Fields))
    IN IF k = 0 THEN Commit(b, Event("continue", 0, 0, b))
       ELSE Commit(b, Event("dispatch", FreshId, SubTasksOf(Fields)[k], b))

\* provider.createTask(instruction) returns, or throws
FileCreated(c, ok) ==
    /\ c.pc = "fileCreate"
    /\ LET b == IF ok THEN suspend(fileCreated(Fields, c), c, "fileWait", Locals(c))
                ELSE return(fileFinished(Fields, c, FALSE), c)
       IN Commit(b, IF ok
                    THEN [Event("fileCreated", c.id, c.sub, b) EXCEPT
                            !.instruction =
                                Instruction(Fields, c.text, subs[c.sub].filePath)]
                    ELSE Event("fileFinished", c.id, c.sub, b))

\* waitForTaskCompletion(task) resolves
FileResolved(c) ==
    /\ c.pc = "fileWait"
    /\ foreground # c.id
    /\ LET b == return(fileFinished(Fields, c, TRUE), c)
       IN Commit(b, Event("fileFinished", c.id, c.sub, b))

\* waitForTaskCompletion(task) rejects after 5 minutes
FileTimeout(c) ==
    /\ c.pc = "fileWait"
    /\ foreground = c.id
    /\ LET b == return(fileFinished(Fields, c, FALSE), c)
       IN Commit(b, Event("fileFinished", c.id, c.sub, b))

\* Ids the view can send: those of the sub-tasks it was shown, and an unknown one
ToggleIds == {0} \cup Range(SubTasksOf(Fields))

ToggleTaskEnabled(taskId) ==
    Commit(toggleTaskEnabled(Fields, taskId),
           Event("toggle", 0, taskId, toggleTaskEnabled(Fields, taskId)))

CancelTask == Commit(cancelTask(Fields), Event("cancel", 0, 0, cancelTask(Fields)))

Reset == Commit(reset(Fields), Event("reset", 0, 0, reset(Fields)))

\* The conversational runtime: the foreground task ends or is left
ExternalTaskEnds ==
    /\ foreground # 0
    /\ Commit([Fields EXCEPT !.foreground = 0], Event("external", 0, 0, Fields))

\* Bounds on the suspended calls: a command that would suspend one more call is
\* taken only while fewer than n are suspended
Room(n) == Cardinality(conts) < n
Dispatches ==
    /\ currentTask # NoTask
    /\ FindNext(subs, SubTasksOf(Fields), StartIndexOf(Fields)) # 0

\* Steps of the suspended calls, with every outcome of what they wait for
ResumeRule(candidates, transport) ==
    \/ \E c \in conts, ok \in BOOLEAN : DiscoveryCreated(c, ok)
    \/ \E c \in conts, empty \in BOOLEAN : DiscoveryResolved(c, empty)
    \/ \E c \in conts : DiscoveryTimeout(c)
    \/ \E c \in conts, files \in candidates : DiscoveryValidated(c, files)
    \/ \E c \in conts : RuleTemplateBegin(c)
    \/ \E c \in conts, res \in transport : RuleTemplateDone(c, res)

ResumeLegacy(listed, transport) ==
    \/ \E c \in conts, exists \in BOOLEAN : LegacyValidated(c, exists)
    \/ \E c \in conts, files \in listed : LegacyListed(c, files)
    \/ \E c \in conts, res \in transport : LegacyTemplateDone(c, res)

ResumeFile ==
    \/ \E c \in conts, ok \in BOOLEAN : FileCreated(c, ok)
    \/ \E c \in conts : FileResolved(c)
    \/ \E c \in conts : FileTimeout(c)
    \/ ExternalTaskEnds

\* Every command with every input, one suspended call at a time
Next ==
    \/ StartRejected
    \/ Room(MaxConts) /\ \E userPrompt \in StartPrompts : StartControlTask(userPrompt)
    \/ (Dispatches => Room(MaxConts)) /\ ContinueNextTask
    \/ \E taskId \in ToggleIds : ToggleTaskEnabled(taskId)
    \/ CancelTask
    \/ Reset
    \/ ResumeRule(DiscoveryCandidates, TransportResults)
    \/ ResumeLegacy(ListedFiles, TransportResults)
    \/ ResumeFile

Spec == Init /\ [][Next]_vars

\* One run with overlapping calls: commands arrive while earlier ones are
\* suspended
OverlapPrompts == {LegacyDirPrompt}
OverlapListed == {AscList(MaxFiles)}
OverlapTransport == {[ok |-> TRUE, text |-> <<"do", "{filePath}">>]}

NextOverlap ==
    \/ StartRejected
    \/ /\ Room(MaxOverlap)
       /\ currentTask = NoTask
       /\ \E userPrompt \in OverlapPrompts : StartControlTask(userPrompt)
    \/ (Dispatches => Room(MaxOverlap)) /\ ContinueNextTask
    \/ \E taskId \in ToggleIds : ToggleTaskEnabled(taskId)
    \/ CancelTask
    \/ ResumeLegacy(OverlapListed, OverlapTransport)
    \/ ResumeFile

SpecOverlap == Init /\ [][NextOverlap]_vars

------------------------------------------------------------------------------
\* What the view and the conversational runtime can observe

\* The sub-tasks of the RunConfig in their order, by value
SubTaskList == [k \in 1..Len(SubTasksOf(Fields)) |-> subs[SubTasksOf(Fields)[k]]]

\* The aggregate status last sent to the view
Aggregate == currentProgress.status

\* The last snapshot by value
Snapshot ==
    IF currentProgress = NoProgress THEN NoProgress
    ELSE [currentProgress EXCEPT !.currentSubTask = IF @ = 0 THEN NoTask ELSE subs[@]]

\* The RunConfig without its sub-task list
RunConfig ==
    IF currentTask = NoTask THEN NoTask
    ELSE [files |-> currentTask.files, isRuleMode |-> currentTask.isRuleMode,
          instructionTemplate |-> currentTask.instructionTemplate]

Calls == {[id |-> c.id, pc |-> c.pc] : c \in conts}
Running == {i \in 1..Len(subs) : subs[i].status = "RUNNING"}
Awaited == {c \in conts : c.pc \in {"discWait", "fileWait"}}
PostedStatuses == {ev.out[i].progress.status : i \in 1..Len(ev.out)}

\* Sub-task k of the RunConfig is after the discovery slot, enabled and PENDING
CanRun(k) ==
    /\ k - 1 >= (IF currentTask.isRuleMode THEN 1 ELSE 0)
    /\ SubTaskList[k].enabled
    /\ SubTaskList[k].status = "PENDING"

------------------------------------------------------------------------------
\* Single flight and the processing guard

\* C1: in every reachable state at most one sub-task is RUNNING and at most one
\* delegated external task is being awaited.
C1_SingleFlight == Cardinality(Running) <= 1 /\ Cardinality(Awaited) <= 1

\* C2: while a run is active the processing guard is held, no start is
\* accepted, and a rejected start changes neither the RunConfig, the sub-task
\* list nor the snapshot, and leaves no call behind that would run it later.
C2_SecondStartRejected ==
    [][active =>
          /\ isProcessing
          /\ ev'.op # "start"
          /\ ev'.op = "startRejected" =>
                /\ RunConfig' = RunConfig
                /\ SubTaskList' = SubTaskList
                /\ Snapshot' = Snapshot
                /\ Calls' = Calls
                /\ ev'.out = <<>>]_vars

\* A start was rejected while the run was processing its files
C2_Witness ==
    /\ ev.op = "startRejected"
    /\ active
    /\ Aggregate = "PROCESSING"
    /\ \E k \in 1..Len(SubTaskList) : SubTaskList[k].status = "COMPLETED"

------------------------------------------------------------------------------
\* Sub-task and aggregate status

StatusGraph ==
    {<<"PENDING", "RUNNING">>, <<"PENDING", "CANCELLED">>, <<"RUNNING", "COMPLETED">>,
     <<"RUNNING", "FAILED">>, <<"CANCELLED", "PENDING">>}

\* The step puts another list of sub-tasks in place of the RunConfig's
ReplacesRun ==
    \/ ev'.op \in {"start", "reset"}
    \/ ev'.op = "materialized" /\ ~currentTask'.isRuleMode

\* C3: every status change of a sub-task of the RunConfig follows the graph
\* PENDING->RUNNING, PENDING->CANCELLED, RUNNING->COMPLETED, RUNNING->FAILED,
\* CANCELLED->PENDING; cancel forcing RUNNING to CANCELLED is not counted
\* against it.  In particular CANCELLED never becomes COMPLETED or FAILED in
\* one step, and COMPLETED and FAILED are final.
C3_StatusGraph ==
    [][~ReplacesRun =>
          \A k \in 1..Len(SubTaskList) :
              k <= Len(SubTaskList') =>
                  \/ SubTaskList'[k].status = SubTaskList[k].status
                  \/ <<SubTaskList[k].status, SubTaskList'[k].status>> \in StatusGraph
                  \/ /\ ev'.op = "cancel"
                     /\ SubTaskList[k].status = "RUNNING"
                     /\ SubTaskList'[k].status = "CANCELLED"]_vars

\* C4: while the aggregate status is CANCELLED (cancel was called, reset was
\* not), continueNext is a no-op: it creates no external task, changes no
\* sub-task and leaves the aggregate status CANCELLED.
C4_ContinueAfterCancel ==
    [][(Aggregate = "CANCELLED" /\ ev'.op \in {"continue", "dispatch"}) =>
          /\ ev'.op = "continue"
          /\ SubTaskList' = SubTaskList
          /\ Aggregate' = "CANCELLED"]_vars

\* C5: when cancel was called while the discovery delegation is suspended in
\* waitForTaskCompletion, the resolution of that wait leaves the aggregate
\* status CANCELLED and the sub-task list as it is: the discovery sub-task
\* stays CANCELLED and no per-file sub-task is added.
C5_CancelDuringDiscovery ==
    [][(/\ Aggregate = "CANCELLED"
        /\ \E c \in conts : c.pc = "discWait" /\ foreground # c.id
        /\ ev'.op \in {"discoveryResolved", "discoveryFailed"}) =>
          /\ Aggregate' = "CANCELLED"
          /\ SubTaskList' = SubTaskList]_vars

\* C6: once the aggregate status is COMPLETED, FAILED or CANCELLED, no step
\* other than a start or a reset posts a snapshot with another status.
C6_TerminalAggregate ==
    [][(Aggregate \in TerminalStatus /\ ev'.op \notin {"start", "reset"}) =>
          \A i \in 1..Len(ev'.out) : ev'.out[i].progress.status = Aggregate]_vars

\* C7: cancel on a run forces every PENDING or RUNNING sub-task to CANCELLED
\* with enabled = false, leaves every other sub-task as it is and posts the
\* aggregate status CANCELLED; cancel with no RunConfig changes nothing.
C7_CancelEffect ==
    [][ev'.op = "cancel" =>
          IF currentTask = NoTask
          THEN /\ currentTask' = NoTask
               /\ Snapshot' = Snapshot
               /\ isProcessing' = isProcessing
               /\ Calls' = Calls
               /\ ev'.out = <<>>
               /\ ev'.hints = <<>>
          ELSE /\ Len(SubTaskList') = Len(SubTaskList)
               /\ \A k \in 1..Len(SubTaskList) :
                     IF SubTaskList[k].status \in {"PENDING", "RUNNING"}
                     THEN /\ SubTaskList'[k].status = "CANCELLED"
                          /\ ~SubTaskList'[k].enabled
                     ELSE SubTaskList'[k] = SubTaskList[k]
               /\ ev'.out # <<>>
               /\ \A i \in 1..Len(ev'.out) : ev'.out[i].progress.status = "CANCELLED"
               /\ Aggregate' = "CANCELLED"]_vars

\* cancel hit a run with a finished, a running and a pending sub-task
C7_Witness ==
    /\ ev.op = "cancel"
    /\ ev.before = "PROCESSING"
    /\ Len(SubTaskList) = 3
    /\ SubTaskList[1].status = "COMPLETED"
    /\ SubTaskList[2].status = "CANCELLED" /\ SubTaskList[2].taskId
    /\ SubTaskList[3].status = "CANCELLED" /\ ~SubTaskList[3].taskId

------------------------------------------------------------------------------
\* continueNextTask

\* C8: continueNext dispatches the lowest-index sub-task that is enabled and
\* PENDING after the discovery slot and touches no other sub-task; it
\* completes the run only when there is none.
C8_LowestIndexFirst ==
    [][/\ ev'.op = "dispatch" =>
             \E k \in 1..Len(SubTaskList) :
                 /\ CanRun(k)
                 /\ \A j \in 1..(k - 1) : ~CanRun(j)
                 /\ Len(SubTaskList') = Len(SubTaskList)
                 /\ SubTaskList'[k].status = "RUNNING"
                 /\ \A j \in 1..Len(SubTaskList) :
                       j # k => SubTaskList'[j] = SubTaskList[j]
       /\ (ev'.op = "continue" /\ currentTask # NoTask) =>
             \A k \in 1..Len(SubTaskList) : ~CanRun(k)]_vars

\* In Rule Mode the first file was toggled off and the second was dispatched
C8_Witness ==
    /\ ev.op = "dispatch"
    /\ currentTask # NoTask
    /\ currentTask.isRuleMode
    /\ Len(SubTaskList) = 3
    /\ SubTaskList[2].status = "CANCELLED"
    /\ SubTaskList[3].status = "RUNNING"

\* C9: a continueNext that finds no enabled PENDING sub-task makes the
\* aggregate status COMPLETED, and the continueNext after it (no call being
\* suspended) changes no sub-task, posts no snapshot and sends no view-routing
\* hint.
C9_FurtherContinueNoOp ==
    [][/\ (ev'.op = "continue" /\ currentTask # NoTask) => Aggregate' = "COMPLETED"
       /\ (/\ ev.op = "continue"
           /\ Aggregate = "COMPLETED"
           /\ conts = {}
           /\ ev'.op \in {"continue", "dispatch"}) =>
             /\ ev'.op = "continue"
             /\ SubTaskList' = SubTaskList
             /\ ev'.out = <<>>
             /\ ev'.hints = <<>>]_vars

\* C10: when a dispatched sub-task has finished, the aggregate status is
\* COMPLETED if no enabled PENDING sub-task remains after the discovery slot,
\* and PROCESSING with nothing further dispatched if one remains.
C10_OneSubTaskPerCall ==
    ev.op = "fileFinished" =>
        IF \E k \in 1..Len(SubTaskList) : CanRun(k)
        THEN Aggregate = "PROCESSING" /\ \A c \in conts : c.pc # "fileCreate"
        ELSE Aggregate = "COMPLETED"

------------------------------------------------------------------------------
\* The end of start

\* Sub-task k of the RunConfig is a per-file sub-task: it is after the
\* discovery slot
IsFile(k) == k - 1 >= (IF currentTask.isRuleMode THEN 1 ELSE 0)

\* C11: when start returns with the aggregate status PROCESSING there is a
\* RunConfig with a template, every per-file sub-task that was not switched
\* off in the meantime is PENDING, and none has been delegated to an external
\* task.
C11_NoAutomaticDispatch ==
    (ev.op = "started" /\ Aggregate = "PROCESSING") =>
        /\ currentTask # NoTask
        /\ currentTask.instructionTemplate # NoTemplate
        /\ \A k \in 1..Len(SubTaskList) :
              IsFile(k) =>
                  /\ SubTaskList[k].status \in {"PENDING", "CANCELLED"}
                  /\ SubTaskList[k].enabled <=> SubTaskList[k].status = "PENDING"
                  /\ ~SubTaskList[k].taskId
        /\ \A c \in conts : c.pc \notin {"fileCreate", "fileWait"}

------------------------------------------------------------------------------
\* toggleTaskEnabled

\* The last step was a toggleEnabled for the sub-task at position k
ToggledAt(k) ==
    /\ ev.op = "toggle"
    /\ currentTask # NoTask
    /\ k \in 1..Len(currentTask.subTasks)
    /\ currentTask.subTasks[k] = ev.sub

\* Every sub-task but the one at position k is the same after the step
OthersUnchanged(k) ==
    /\ Len(SubTaskList') = Len(SubTaskList)
    /\ \A j \in 1..Len(SubTaskList) : j # k => SubTaskList'[j] = SubTaskList[j]

\* C12: toggleEnabled on a PENDING, enabled sub-task makes it CANCELLED with
\* enabled = false, and the toggleEnabled for the same sub-task right after it
\* makes it PENDING with enabled = true, no error and no end time; neither
\* toggle changes another sub-task.
C12_ToggleRoundTrip ==
    [][\A k \in 1..Len(SubTaskList) :
          ToggledAt(k)' =>
             /\ (SubTaskList[k].status = "PENDING" /\ SubTaskList[k].enabled) =>
                   /\ SubTaskList'[k].status = "CANCELLED"
                   /\ ~SubTaskList'[k].enabled
                   /\ OthersUnchanged(k)
             /\ (/\ ToggledAt(k)
                 /\ ev.out # <<>>
                 /\ SubTaskList[k].status = "CANCELLED"
                 /\ ~SubTaskList[k].enabled) =>
                   /\ SubTaskList'[k].status = "PENDING"
                   /\ SubTaskList'[k].enabled
                   /\ ~SubTaskList'[k].error
                   /\ ~SubTaskList'[k].endTime
                   /\ OthersUnchanged(k)]_vars

\* The second of the two toggles has put back the second file's sub-task
\* while the first file's sub-task is finished
C12_Witness ==
    /\ ToggledAt(2)
    /\ ev.out # <<>>
    /\ Len(SubTaskList) = 2
    /\ SubTaskList[1].status = "COMPLETED"
    /\ SubTaskList[2].status = "PENDING"
    /\ SubTaskList[2].enabled
    /\ ~SubTaskList[2].taskId

\* The step changed no sub-task and posted no snapshot
NothingToggled ==
    /\ SubTaskList' = SubTaskList
    /\ Snapshot' = Snapshot
    /\ RunConfig' = RunConfig
    /\ ev'.out = <<>>
    /\ ev'.hints = <<>>

\* C13: toggleEnabled changes no sub-task and posts no snapshot when there is
\* no RunConfig, when the id is that of no sub-task of the run, and when the
\* sub-task is RUNNING, COMPLETED or FAILED.
C13_ToggleNoOp ==
    [][ev'.op = "toggle" =>
          IF currentTask = NoTask \/ ~(\E k \in 1..Len(SubTaskList) : ToggledAt(k)')
          THEN NothingToggled
          ELSE \A k \in 1..Len(SubTaskList) :
                  (/\ ToggledAt(k)'
                   /\ SubTaskList[k].status \in {"RUNNING", "COMPLETED", "FAILED"}) =>
                      NothingToggled]_vars

\* A toggle arrived for the sub-task that is RUNNING and awaited, after one
\* sub-task had finished
C13_Witness ==
    /\ ToggledAt(2)
    /\ ev.out = <<>>
    /\ Len(SubTaskList) = 2
    /\ SubTaskList[1].status \in {"COMPLETED", "FAILED"}
    /\ SubTaskList[2].status = "RUNNING"
    /\ \E c \in conts : c.pc = "fileWait"

\* C14: in every reachable state a sub-task that has never been RUNNING (no
\* start time) and has enabled = false is CANCELLED, and a sub-task that
\* continueNext makes RUNNING was enabled and PENDING just before that step.
C14_DisabledIsCancelled ==
    /\ [](\A i \in 1..Len(subs) :
             (~subs[i].startTime /\ ~subs[i].enabled) => subs[i].status = "CANCELLED")
    /\ [][\A k \in 1..Len(SubTaskList) :
             (/\ ev'.op \in {"continue", "dispatch"}
              /\ Len(SubTaskList') = Len(SubTaskList)
              /\ SubTaskList[k].status # "RUNNING"
              /\ SubTaskList'[k].status = "RUNNING") =>
                 /\ SubTaskList[k].enabled
                 /\ SubTaskList[k].status = "PENDING"]_vars

\* continueNext passed over a sub-task that was switched off before it ever
\* ran and dispatched the next one
C14_Witness ==
    /\ ev.op = "dispatch"
    /\ Len(SubTaskList) = 2
    /\ ~SubTaskList[1].startTime
    /\ ~SubTaskList[1].enabled
    /\ SubTaskList[1].status = "CANCELLED"
    /\ SubTaskList[2].startTime
    /\ SubTaskList[2].status = "RUNNING"

------------------------------------------------------------------------------
\* Commands that arrive while a call is suspended

\* C15: a toggleEnabled that arrives while a start or continueNext call is
\* suspended on the external task of a sub-task that is still RUNNING changes
\* no sub-task of the run.
C15_ToggleSerialized ==
    [][(ev'.op = "toggle" /\ \E c \in Awaited : subs[c.sub].status = "RUNNING") =>
          SubTaskList' = SubTaskList]_vars

------------------------------------------------------------------------------
\* The instruction template

\* The placeholder token processSingleFile replaces in the run's mode
Placeholder == IF currentTask.isRuleMode THEN "{{file}}" ELSE "{filePath}"

\* C16: whenever the RunConfig has a template that is not the empty text, the
\* template contains the placeholder token of the run's mode.
C16_TemplateHasPlaceholder ==
    (/\ currentTask # NoTask
     /\ currentTask.instructionTemplate # NoTemplate
     /\ currentTask.instructionTemplate # <<>>) =>
        Includes(currentTask.instructionTemplate, Placeholder)

------------------------------------------------------------------------------
\* Failures

\* The last step ended the call that was processing the sub-task at position k
FinishedAt(k) ==
    /\ ev.op = "fileFinished"
    /\ currentTask # NoTask
    /\ k \in 1..Len(currentTask.subTasks)
    /\ currentTask.subTasks[k] = ev.sub

\* C18: when the delegation of a per-file sub-task fails or its wait times
\* out, that sub-task becomes FAILED with its error and end time set and no
\* other sub-task changes; no FAILED snapshot is posted; the sub-tasks that
\* were enabled and PENDING stay so and the aggregate status stays PROCESSING,
\* and when there is none the aggregate status becomes COMPLETED.
C18_PartialFailure ==
    [][\A k \in 1..Len(SubTaskList) :
          (FinishedAt(k)' /\ SubTaskList'[k].status = "FAILED") =>
             /\ SubTaskList'[k].error
             /\ SubTaskList'[k].endTime
             /\ OthersUnchanged(k)
             /\ "FAILED" \notin PostedStatuses'
             /\ IF \E j \in 1..Len(SubTaskList) : j # k /\ CanRun(j)
                THEN /\ Aggregate' = "PROCESSING"
                     /\ \A j \in 1..Len(SubTaskList) :
                           (j # k /\ CanRun(j)) => CanRun(j)'
                ELSE Aggregate' = "COMPLETED"]_vars

\* The first file failed, the second was dispatched by a later continueNext
\* and failed too, and the run ended COMPLETED
C18_Witness ==
    /\ FinishedAt(2)
    /\ Len(SubTaskList) = 2
    /\ SubTaskList[1].status = "FAILED"
    /\ SubTaskList[1].error
    /\ SubTaskList[2].status = "FAILED"
    /\ SubTaskList[2].error
    /\ SubTaskList[2].endTime
    /\ Aggregate = "COMPLETED"

\* The step ends the start call c because its file set is empty: the
\* extractor found no path, no candidate file exists, the directory does not
\* exist, or the lister found no file
EmptyFileSet(c) ==
    /\ \A d \in conts' : d.id # c.id
    /\ \/ c.pc = "discWait" /\ foreground # c.id /\ ev'.op = "discoveryFailed"
       \/ c.pc = "discValidate" /\ ev'.op = "discoveryFailed"
       \/ c.pc \in {"legValidate", "legList"} /\ ev'.op = "startFailed"

\* C19: a start whose file set turns out empty ends with the aggregate status
\* FAILED; the step creates no sub-task, changes no per-file sub-task and sets
\* no template, and in Rule Mode it leaves the discovery sub-task FAILED.
C19_EmptyFileSetFails ==
    [][\A c \in conts :
          EmptyFileSet(c) =>
             /\ Aggregate' = "FAILED"
             /\ RunConfig' = RunConfig
             /\ Len(subs') <= Len(subs)
             /\ Len(SubTaskList') = Len(SubTaskList)
             /\ \A k \in 1..Len(SubTaskList) :
                   IsFile(k) => SubTaskList'[k] = SubTaskList[k]
             /\ c.pc \in {"discWait", "discValidate"} =>
                   subs'[ev'.sub].status = "FAILED"]_vars

\* In Rule Mode the extractor found no path in the response: the run is FAILED
\* with the discovery sub-task alone and no template
C19_Witness ==
    /\ ev.op = "discoveryFailed"
    /\ Len(ev.out) = 2
    /\ ev.out[1].progress.status = "PARSING"
    /\ Aggregate = "FAILED"
    /\ currentTask # NoTask
    /\ currentTask.isRuleMode
    /\ currentTask.instructionTemplate = NoTemplate
    /\ Len(SubTaskList) = 1
    /\ SubTaskList[1].status = "FAILED"
    /\ conts = {}

\* The step is a start call, now suspended as c, whose prompt is empty
StartedEmpty(c) ==
    /\ ev'.op = "start"
    /\ c \in conts' \ conts
    /\ c.text = EmptyPrompt

\* C20: start with an empty prompt ends at once with the aggregate status
\* FAILED: the call is not left waiting for the directory lister and no
\* sub-task is created.
C20_EmptyPromptFails ==
    [][(\E c \in conts' : StartedEmpty(c)) =>
          /\ Aggregate' = "FAILED"
          /\ \A c \in conts' : c.pc # "legList"
          /\ Len(subs') <= Len(subs)]_vars

\* C21: when a start call ends FAILED because its file set is empty, in Rule
\* Mode as in Legacy Mode, the processing guard is released, so that the next
\* start is accepted.
C21_GuardReleasedOnFailure ==
    [][\A c \in conts : EmptyFileSet(c) => ~isProcessing']_vars

------------------------------------------------------------------------------
\* Progress counters

\* The per-file sub-tasks of the RunConfig that have the given status
FilesWith(status) ==
    {k \in 1..Len(SubTaskList) : IsFile(k) /\ SubTaskList[k].status = status}

\* C22: in Rule Mode, once discovery is COMPLETED, the snapshot posted last
\* when start ends, at a dispatch and when a sub-task finishes counts per-file
\* sub-tasks only: its total is the number of per-file
\* sub-tasks, its completed and failed counts are those of the per-file
\* sub-tasks.
C22_CountersSkipDiscovery ==
    (/\ ev.op \in {"started", "dispatch", "fileFinished"}
     /\ ev.out # <<>>
     /\ currentTask # NoTask
     /\ currentTask.isRuleMode
     /\ SubTaskList[1].status = "COMPLETED"
     /\ currentProgress # NoProgress) =>
        /\ currentProgress.totalFiles = Len(SubTaskList) - 1
        /\ currentProgress.completedCount = Cardinality(FilesWith("COMPLETED"))
        /\ currentProgress.failedCount = Cardinality(FilesWith("FAILED"))

------------------------------------------------------------------------------
\* reset

\* What getCurrentTask, getCurrentProgress and the processing guard show when
\* the service is idle
Idle == currentTask = NoTask /\ currentProgress = NoProgress /\ ~isProcessing

\* The step resumes a call that was waiting for its external task
WaitEnds == \E c \in Awaited : \A d \in conts' : d.id = c.id => d.pc # c.pc

\* C23: reset leaves the service idle (no RunConfig, no progress, the
\* processing guard released), and an idle service stays idle when the wait
\* for an external task that was delegated earlier ends.
C23_ResetToIdle ==
    [][/\ ev'.op = "reset" => Idle'
       /\ (Idle /\ WaitEnds) => Idle']_vars

------------------------------------------------------------------------------
\* Materialization in Rule Mode

\* The candidate paths without their leading slash
Stripped(candidates) == [i \in 1..Len(candidates) |-> StripSlash(candidates[i])]

\* The candidates that exist, in the order discovery returned them
Existing(candidates) == SelectSeq(Stripped(candidates), LAMBDA f : f \in ExistingFiles)

\* C24: when discovery returned candidates of which at least one exists, the
\* sub-task list is the discovery sub-task, COMPLETED, followed by one PENDING,
\* enabled, not yet started sub-task per existing candidate in the order of
\* the candidates, and files is the list of the existing candidates.
C24_OneSubTaskPerExistingFile ==
    (ev.op = "materialized" /\ ev.candidates # NoText) =>
        /\ Existing(ev.candidates) # <<>>
        /\ currentTask # NoTask
        /\ currentTask.files = Existing(ev.candidates)
        /\ Len(SubTaskList) = 1 + Len(Existing(ev.candidates))
        /\ SubTaskList[1].filePath = DiscoveryPath
        /\ SubTaskList[1].status = "COMPLETED"
        /\ \A i \in 1..Len(Existing(ev.candidates)) :
              SubTaskList[i + 1] = SubTask(Existing(ev.candidates)[i], "PENDING")

\* Discovery returned a missing path and two existing ones with a leading
\* slash: two sub-tasks follow the discovery sub-task
C24_Witness ==
    /\ ev.op = "materialized"
    /\ Len(ev.candidates) = 3
    /\ ev.candidates[1] = MissingFile
    /\ currentTask # NoTask
    /\ Len(currentTask.files) = 2
    /\ Len(SubTaskList) = 3
    /\ SubTaskList[2].filePath = StripSlash(ev.candidates[2])
    /\ SubTaskList[3].status = "PENDING"

------------------------------------------------------------------------------
\* Helper functions taken on their own.  A call record holds the function, its
\* input, whether it has returned, and its result.

\* All texts of at most n tokens over an alphabet
Texts(alphabet, n) == UNION {[1..k -> alphabet] : k \in 0..n}

Pending(fn, arg) == [fn |-> fn, arg |-> arg, done |-> FALSE, out |-> NoText]
Returned(c, out) == [c EXCEPT !.done = TRUE, !.out = out]

\* parseRules on every prompt of at most MaxPrompt tokens
RulePrompts == Texts({"#", "$", " ", "\n", "add docs"}, MaxPrompt)

InitParse == Quiet /\ call \in {Pending("parseRules", p) : p \in RulePrompts}

ParseRulesCall ==
    /\ call.fn = "parseRules"
    /\ ~call.done
    /\ call' = Returned(call, parseRules(call.arg))
    /\ UNCHANGED service

NextParse == ParseRulesCall

SpecParse == InitParse /\ [][NextParse]_vars

\* Tokens i..j of s are a whole line: between two newlines or the ends of s
LineAt(s, i, j) ==
    /\ i \in 1..(Len(s) + 1)
    /\ j \in (i - 1)..Len(s)
    /\ i = 1 \/ s[i - 1] = "\n"
    /\ j = Len(s) \/ s[j + 1] = "\n"
    /\ \A l \in i..j : s[l] # "\n"

\* Token k is the marker m that begins the trimmed line i..j
MarkerAt(s, i, j, k, m) ==
    /\ LineAt(s, i, j)
    /\ k \in i..j
    /\ s[k] = m
    /\ \A l \in i..(k - 1) : s[l] = " "

HasMarker(s, m) ==
    \E i \in 1..(Len(s) + 1), j \in 0..Len(s), k \in 1..Len(s) : MarkerAt(s, i, j, k, m)

\* r is what follows marker m on the first line that begins with m, without
\* the white space around it
IsRule(s, m, r) ==
    \E i \in 1..(Len(s) + 1), j \in 0..Len(s), k \in 1..Len(s) :
        /\ MarkerAt(s, i, j, k, m)
        /\ \A i2 \in 1..(i - 1), j2 \in 0..Len(s), k2 \in 1..Len(s) :
              ~MarkerAt(s, i2, j2, k2, m)
        /\ \E a \in (k + 1)..(j + 1), b \in k..j :
              /\ r = SubSeq(s, a, b)
              /\ \A l \in (k + 1)..(a - 1) : s[l] = " "
              /\ \A l \in (b + 1)..j : s[l] = " "
              /\ a <= b => (s[a] # " " /\ s[b] # " ")
              /\ a > b => (a = b + 1 /\ \A l \in (k + 1)..j : s[l] = " ")

\* C25: parseRules returns on every input; it reports Rule Mode exactly when a
\* trimmed line begins with "#" and a trimmed line begins with "$", each rule
\* then being the rest of the first such line without the white space around
\* it; otherwise it reports Legacy Mode with the input as originalPrompt.
C25_ParseRules ==
    (call.fn = "parseRules" /\ call.done) =>
        /\ call.out.isRuleMode <=> (HasMarker(call.arg, "#") /\ HasMarker(call.arg, "$"))
        /\ call.out.isRuleMode =>
              /\ IsRule(call.arg, "#", call.out.discoveryRule)
              /\ IsRule(call.arg, "$", call.out.processingRule)
        /\ ~call.out.isRuleMode => call.out.originalPrompt = call.arg

\* Both markers, the discovery rule with white space before it
C25_Witness ==
    /\ call.fn = "parseRules"
    /\ call.done
    /\ call.arg = <<"$", "\n", "#", " ", "add docs">>
    /\ call.out.isRuleMode
    /\ call.out.discoveryRule = <<"add docs">>
    /\ call.out.processingRule = <<>>

------------------------------------------------------------------------------
\* extractFileListFromResponse on its own: the responses are up to
\* MaxFragments pieces of agent output, one per line.

Fragments ==
    {<<"[", "\"f1.ts\"", ",", "\" \"", "]">>,
     <<"[", "1", "]">>,
     <<"[", "note", "]">>,
     <<"<fence>", "json", "\n", "f2.ts", "\n", "#", "note", "\n", "<fence>">>,
     <<"<fence>", "1", "<fence>">>,
     <<"<fence>", "\n", "<fence>">>,
     <<"-", " ", "<backtick>", "f3.ts", "<backtick>">>,
     <<"*", " ", " ">>,
     <<"1.", " ", "src", "/", "f4.ts">>,
     <<"File", " ", "f4.ts">>,
     <<"note">>}

RECURSIVE JoinLines(_)
JoinLines(frs) ==
    IF frs = <<>> THEN <<>>
    ELSE IF Len(frs) = 1 THEN Head(frs)
    ELSE Head(frs) \o <<"\n">> \o JoinLines(Tail(frs))

InitExtract ==
    /\ Quiet
    /\ call \in {Pending("extractFileList", JoinLines(frs)) :
                    frs \in Texts(Fragments, MaxFragments)}

ExtractCall ==
    /\ call.fn = "extractFileList"
    /\ ~call.done
    /\ call' = Returned(call, extractFileListFromResponse(call.arg))
    /\ UNCHANGED service

NextExtract == ExtractCall

SpecExtract == InitExtract /\ [][NextExtract]_vars

\* the results of the four attempts, in the order the function makes them
Attempts(response) ==
    <<JsonArrayFiles(response), CodeBlockFiles(response),
      ListItemFiles(response), PathLineFiles(response)>>

\* C26: extractFileListFromResponse returns for every response; what it
\* returns is the result of the first of the four attempts (JSON array, fenced
\* block, bullet lines, path-like lines) whose result is not empty, never the
\* result of a later one, and it is the empty sequence exactly when all four
\* results are empty.
C26_FirstNonEmptyStrategy ==
    (call.fn = "extractFileList" /\ call.done) =>
        LET a == Attempts(call.arg)
        IN /\ \A k \in 1..4 :
                 (a[k] # <<>> /\ \A j \in 1..(k - 1) : a[j] = <<>>) => call.out = a[k]
           /\ call.out = <<>> <=> \A k \in 1..4 : a[k] = <<>>

\* a fenced block and a bullet line both yield files and no JSON array does:
\* the fenced block's lines are returned
C26_Witness ==
    /\ call.fn = "extractFileList"
    /\ call.done
    /\ Attempts(call.arg)[1] = <<>>
    /\ Attempts(call.arg)[2] = <<<<"f2.ts">>>>
    /\ Attempts(call.arg)[3] = <<<<"f3.ts">>>>
    /\ call.out = <<<<"f2.ts">>>>

------------------------------------------------------------------------------
\* extractDirectoryFromPrompt on its own: the prompts are up to MaxPieces
\* pieces (mentions, words, white space) written one after the other.

PromptPieces ==
    {<<"@", "/", "src">>,
     <<"@", "/", "my", "\\ ", "dir">>,
     <<"@", "https://", "a">>,
     <<"@", "problems">>,
     <<"@", "a1b2c3d">>,
     <<" ">>,
     <<"do">>}

RECURSIVE Concat(_)
Concat(pieces) == IF pieces = <<>> THEN <<>> ELSE Head(pieces) \o Concat(Tail(pieces))

InitDirectory ==
    /\ Quiet
    /\ call \in {Pending("extractDirectory", Concat(ps)) : ps \in Texts(PromptPieces, MaxPieces)}

DirectoryCall ==
    /\ call.fn = "extractDirectory"
    /\ ~call.done
    /\ call' = Returned(call, extractDirectoryFromPrompt(call.arg))
    /\ UNCHANGED service

NextDirectory == DirectoryCall

SpecDirectory == InitDirectory /\ [][NextDirectory]_vars

\* the at-prefixed token that starts at i is one the recognizer reports (it
\* does not lie inside an earlier one), starts with "/" and is not reserved
Qualifies(prompt, i) ==
    /\ i \in MentionStarts(prompt)
    /\ \A j \in MentionStarts(prompt) : j < i => MentionEnd(prompt, j) < i
    /\ prompt[i + 1] = "/"
    /\ ~IsSpecialMention(SubSeq(prompt, i + 1, MentionEnd(prompt, i)))

\* C27: extractDirectoryFromPrompt accepts the first at-prefixed token that
\* starts with "/" and is not a reserved keyword, a URL or a commit hash; it
\* returns hasPath = TRUE, the token's path without the leading slash (escaped
\* spaces unescaped) and the prompt with that occurrence of the token removed
\* (compared up to the white space at its two ends).  When no token qualifies
\* it returns the empty directory, hasPath = FALSE and the prompt unchanged.
C27_ExtractDirectory ==
    (call.fn = "extractDirectory" /\ call.done) =>
        LET prompt == call.arg
            found == {i \in 1..Len(prompt) : Qualifies(prompt, i)}
        IN IF found = {}
           THEN call.out = [directory |-> <<>>, hasPath |-> FALSE, cleanedPrompt |-> prompt]
           ELSE LET i == CHOOSE k \in found : \A j \in found : k <= j
                    e == MentionEnd(prompt, i)
                IN /\ call.out.hasPath
                   /\ call.out.directory = Unescape(SubSeq(prompt, i + 2, e))
                   /\ Trim(call.out.cleanedPrompt) =
                          Trim(SubSeq(prompt, 1, i - 1) \o SubSeq(prompt, e + 1, Len(prompt)))

\* the accepted token's text also occurs inside an earlier URL mention, and it
\* is that earlier text which is removed: the accepted token is still there
C27_RemovesEarlierText ==
    /\ call.fn = "extractDirectory"
    /\ call.done
    /\ call.arg = <<"@", "https://", "a", "@", "/", "src", " ", "@", "/", "src">>
    /\ call.out.hasPath
    /\ call.out.cleanedPrompt = <<"@", "https://", "a", " ", "@", "/", "src">>

------------------------------------------------------------------------------
\* waitForTaskCompletion(task) on its own.  The call record holds the closure:
\* isResolved, the two timers (timeout armed or not, poll = the time at which
\* the next checkTaskStatus is due, 0 when none is scheduled), the clock now in
\* milliseconds since the call, and current = provider.getCurrentTask()
\* (0 for none).  settles counts the calls of resolve and reject, settledAt is
\* the time of the first, firstGone the time of the first poll that found the
\* current task absent or different from task (0 when there was none).

\* setTimeout(checkTaskStatus, 500); the timeout is 5 * 60 * 1000
PollMs == 500
TimeoutMs == 300000

Handle == 1
CurrentTasks == {0, Handle, 2}

Settle(w, outcome) ==
    [Returned(w, outcome) EXCEPT !.isResolved = TRUE, !.settles = w.settles + 1,
                                 !.settledAt = w.now]

\* checkTaskStatus resolving only when there is no current task at all
checkTaskStatusAbsentOnly(w) ==
    IF w.current = 0
    THEN IF ~w.isResolved
         THEN [Settle(w, "resolved") EXCEPT !.timeout = FALSE, !.poll = 0]
         ELSE [w EXCEPT !.poll = 0]
    ELSE [w EXCEPT !.poll = w.now + PollMs]

\* checkTaskStatus, lines 1058-1073
checkTaskStatus(w) ==
    IF w.current = 0 \/ w.current # w.arg
    THEN IF ~w.isResolved
         THEN [Settle(w, "resolved") EXCEPT !.timeout = FALSE, !.poll = 0]
         ELSE [w EXCEPT !.poll = 0]
    ELSE [w EXCEPT !.poll = w.now + PollMs]

\* the callback of the timeout timer, lines 1047-1052
timeoutElapsed(w) ==
    IF ~w.isResolved
    THEN [Settle(w, "rejected") EXCEPT !.timeout = FALSE]
    ELSE [w EXCEPT !.timeout = FALSE]

\* the executor of the promise: both timers are started, lines 1043-1077
waitForTaskCompletion(task, current) ==
    [fn |-> "wait", arg |-> task, done |-> FALSE, out |-> "pending",
     isResolved |-> FALSE, timeout |-> TRUE, poll |-> PollMs, now |-> 0,
     current |-> current, settles |-> 0, settledAt |-> 0, firstGone |-> 0]

InitWait == Quiet /\ call \in {waitForTaskCompletion(Handle, t) : t \in CurrentTasks}

\* of two timers the one that is due first runs first; when both are due at
\* the same time either may run first
WaitPoll ==
    /\ call.fn = "wait"
    /\ call.poll # 0
    /\ call.poll <= TimeoutMs + MaxLatePolls * PollMs
    /\ call.timeout => call.poll <= TimeoutMs
    /\ call' = checkTaskStatus(
                   [call EXCEPT !.now = call.poll,
                                !.firstGone = IF call.firstGone = 0 /\ call.current # call.arg
                                              THEN call.poll ELSE call.firstGone])
    /\ UNCHANGED service

WaitTimeout ==
    /\ call.fn = "wait"
    /\ call.timeout
    /\ call.poll # 0 => TimeoutMs <= call.poll
    /\ call' = timeoutElapsed([call EXCEPT !.now = TimeoutMs])
    /\ UNCHANGED service

\* the runtime's foreground task changes while the call waits
CurrentTaskChanges ==
    /\ call.fn = "wait"
    /\ call.poll # 0
    /\ \E t \in CurrentTasks \ {call.current} : call' = [call EXCEPT !.current = t]
    /\ UNCHANGED service

NextWait == WaitPoll \/ WaitTimeout \/ CurrentTaskChanges

\* a timer that is due runs
SpecWait == InitWait /\ [][NextWait]_vars /\ WF_vars(WaitPoll) /\ WF_vars(WaitTimeout)

\* C28: waitForTaskCompletion(task) settles exactly once.  resolve and reject
\* are called once between them and the call does settle; it resolves at the
\* first poll (polls are PollMs apart, the first PollMs after the call) that
\* finds the current task absent or different from task, if that poll comes
\* before the timeout; it fails at TimeoutMs when no poll before has found
\* that; and an outcome, once reached, never changes.
C28_SettlesOnce ==
    /\ [](call.fn = "wait" =>
            /\ call.settles <= 1
            /\ call.done <=> call.settles = 1
            /\ call.out = "resolved" =>
                  /\ call.firstGone # 0
                  /\ call.settledAt = call.firstGone
                  /\ call.firstGone % PollMs = 0
                  /\ call.firstGone \in PollMs..TimeoutMs
            /\ call.out = "rejected" =>
                  /\ call.settledAt = TimeoutMs
                  /\ call.firstGone = 0 \/ call.firstGone >= TimeoutMs
            /\ (call.firstGone # 0 /\ call.firstGone < TimeoutMs) => call.out = "resolved"
            /\ call.now > TimeoutMs => call.done)
    /\ [][call.done => call'.done /\ call'.out = call.out]_vars
    /\ <>(call.fn = "wait" /\ call.done)

\* the call has failed at the timeout, a later poll has found the task gone,
\* and the call has not resolved
C28_Witness ==
    /\ call.fn = "wait"
    /\ call.out = "rejected"
    /\ call.firstGone = TimeoutMs + PollMs
    /\ call.poll = 0

------------------------------------------------------------------------------
\* callWithRetry(apiCall, maxRetries, initialDelay) on its own.  apiCall is
\* given by a plan: its call number i returns the value i ("ok"), throws an
\* Error ("Error") or throws a value that is no Error ("string").  The call
\* record holds the locals attempt and lastError, the position pc, the number
\* of calls of apiCall made and the delays waited so far.

DefaultMaxRetries == 3
DefaultInitialDelay == 1000

NoError == [undefined |-> TRUE]
Thrown(kind, i) == [isError |-> kind = "Error", attempt |-> i]
ApiPlans == UNION {[1..n -> {"ok", "Error", "string"}] : n \in 0..MaxRetries}

\* the catch block waiting initialDelay * (attempt + 1)
callFailedLinearDelay(w, error) ==
    LET caught == [w EXCEPT !.lastError = [error EXCEPT !.isError = TRUE]]
    IN IF ~(w.attempt < w.arg.maxRetries - 1)
       THEN Returned([caught EXCEPT !.pc = "done"], [thrown |-> caught.lastError])
       ELSE [caught EXCEPT !.pc = "delay",
                           !.waits = Append(@, w.arg.initialDelay * (w.attempt + 1))]

\* the catch block waiting before it looks whether an attempt is left
callFailedWaitsFirst(w, error) ==
    LET caught == [w EXCEPT !.lastError = [error EXCEPT !.isError = TRUE]]
    IN [caught EXCEPT !.pc = "delay",
                      !.waits = Append(@, w.arg.initialDelay * 2^w.attempt)]

\* the catch block, lines 523-544, and the throw after the loop, line 547:
\* a thrown value that is no Error is wrapped in one
callFailed(w, error) ==
    LET caught == [w EXCEPT !.lastError = [error EXCEPT !.isError = TRUE]]
    IN IF ~(w.attempt < w.arg.maxRetries - 1)
       THEN Returned([caught EXCEPT !.pc = "done"], [thrown |-> caught.lastError])
       ELSE [caught EXCEPT !.pc = "delay",
                           !.waits = Append(@, w.arg.initialDelay * 2^w.attempt)]

\* the call up to its first await; with maxRetries = 0 the loop is not entered
callWithRetry(plan, maxRetries, initialDelay) ==
    LET w == [fn |-> "callWithRetry",
              arg |-> [plan |-> plan, maxRetries |-> maxRetries,
                       initialDelay |-> initialDelay],
              done |-> FALSE, out |-> NoText, pc |-> "apiCall", attempt |-> 0,
              lastError |-> NoError, calls |-> 0, waits |-> <<>>]
    IN IF 0 < maxRetries THEN w
       ELSE Returned([w EXCEPT !.pc = "done"], [thrown |-> Thrown("Error", 0)])

InitRetry ==
    /\ Quiet
    /\ call \in {callWithRetry(plan, Len(plan), d) :
                    plan \in ApiPlans, d \in {DefaultInitialDelay, 2 * DefaultInitialDelay}}

ApiCallReturns ==
    /\ call.fn = "callWithRetry"
    /\ call.pc = "apiCall"
    /\ call.arg.plan[call.attempt + 1] = "ok"
    /\ call' = Returned([call EXCEPT !.calls = @ + 1, !.pc = "done"],
                        [returned |-> call.attempt + 1])
    /\ UNCHANGED service

ApiCallThrows ==
    /\ call.fn = "callWithRetry"
    /\ call.pc = "apiCall"
    /\ call.arg.plan[call.attempt + 1] # "ok"
    /\ call' = callFailed([call EXCEPT !.calls = @ + 1],
                          Thrown(call.arg.plan[call.attempt + 1], call.attempt + 1))
    /\ UNCHANGED service

\* the delay ends and the loop goes to the next attempt; an attempt beyond
\* maxRetries ends the loop
DelayElapsed ==
    /\ call.fn = "callWithRetry"
    /\ call.pc = "delay"
    /\ call' = IF call.attempt + 1 < call.arg.maxRetries
               THEN [call EXCEPT !.attempt = @ + 1, !.pc = "apiCall"]
               ELSE Returned([call EXCEPT !.attempt = @ + 1, !.pc = "done"],
                             [thrown |-> call.lastError])
    /\ UNCHANGED service

NextRetry == ApiCallReturns \/ ApiCallThrows \/ DelayElapsed

SpecRetry == InitRetry /\ [][NextRetry]_vars

\* the plan fails on its first k calls and succeeds on call k + 1
FailsThenSucceeds(plan, k) ==
    k < Len(plan) /\ plan[k + 1] = "ok" /\ \A i \in 1..k : plan[i] # "ok"

\* C29: when apiCall fails on its first k calls and succeeds on call k + 1, for
\* a k < maxRetries, callWithRetry returns the value of call k + 1 after
\* exactly k + 1 calls, having waited initialDelay * 2^i before retry i + 1 for
\* i = 0..k-1, and these delays are strictly increasing; it does not return
\* while calls or delays are outstanding.
C29_RetrySuccess ==
    \A k \in 0..(MaxRetries - 1) :
        (call.fn = "callWithRetry" /\ FailsThenSucceeds(call.arg.plan, k)) =>
            /\ call.calls <= k + 1
            /\ Len(call.waits) <= k
            /\ \A i \in 1..Len(call.waits) :
                  call.waits[i] = call.arg.initialDelay * 2^(i - 1)
            /\ \A i \in 1..(Len(call.waits) - 1) : call.waits[i] < call.waits[i + 1]
            /\ call.done =>
                  /\ call.out = [returned |-> k + 1]
                  /\ call.calls = k + 1
                  /\ Len(call.waits) = k

\* two failures, then success: delays of 1000 ms and 2000 ms
C29_Witness ==
    /\ call.fn = "callWithRetry"
    /\ call.done
    /\ call.arg.maxRetries = DefaultMaxRetries
    /\ call.out = [returned |-> 3]
    /\ call.waits = <<1000, 2000>>

C31_ThreeRetries ==
    (/\ call.fn = "callWithRetry"
     /\ call.arg.maxRetries = DefaultMaxRetries
     /\ call.arg.initialDelay = DefaultInitialDelay
     /\ \A i \in 1..call.arg.maxRetries : call.arg.plan[i] # "ok"
     /\ call.done) =>
        /\ call.calls = 1 + 3
        /\ call.waits = <<1000, 2000, 4000>>

\* every call fails: the error is thrown after the third call, two retries
\* and delays of 1000 ms and 2000 ms
C31_GivesUpAfterTwoRetries ==
    /\ call.fn = "callWithRetry"
    /\ call.arg.maxRetries = DefaultMaxRetries
    /\ call.arg.plan = <<"Error", "Error", "Error">>
    /\ call.done
    /\ call.calls = 3
    /\ call.waits = <<1000, 2000>>
    /\ call.out = [thrown |-> Thrown("Error", 3)]

\* the step ends the template synthesis of the start call c, callWithRetry
\* having thrown, and the run is still there
FallsBack(c, pc) ==
    /\ c.pc = pc
    /\ \A d \in conts' : d.id # c.id
    /\ ev'.transport = "failed"
    /\ currentTask' # NoTask

\* C32: when callWithRetry has thrown, the template is the fallback: in Legacy
\* Mode the prompt given to start, unchanged, also when it holds a directory
\* mention; in Rule Mode the lead-in sentence with the placeholder followed by
\* the processing rule.
C32_FallbackTemplate ==
    [][\A c \in conts :
          /\ FallsBack(c, "legTemplateCall") =>
                currentTask'.instructionTemplate = c.userPrompt
          /\ FallsBack(c, "ruleTemplateCall") =>
                currentTask'.instructionTemplate = LeadIn \o c.text]_vars

------------------------------------------------------------------------------
\* getTaskResponse(task) on its own.  A message of apiConversationHistory has
\* a role and a content that is an array of parts, a string or neither; an
\* entry of clineMessages has a type, a say and a text (<<>>: no text).

Part(type, text) == [type |-> type, text |-> text]
ApiMessage(role, kind, parts, text) ==
    [role |-> role, kind |-> kind, parts |-> parts, text |-> text]

ApiMessages ==
    {ApiMessage("assistant", "string", <<>>, <<"done">>),
     ApiMessage("assistant", "string", <<>>, <<>>),
     ApiMessage("assistant", "array",
                <<Part("text", <<"f1.ts">>), Part("tool_use", <<>>),
                  Part("text", <<"f2.ts">>)>>, <<>>),
     ApiMessage("assistant", "array", <<Part("tool_use", <<>>)>>, <<>>),
     ApiMessage("assistant", "none", <<>>, <<>>),
     ApiMessage("user", "string", <<>>, <<"go on">>)}

ClineMessages ==
    {[type |-> "say", say |-> "text", text |-> <<"shown">>],
     [type |-> "say", say |-> "text", text |-> <<>>],
     [type |-> "say", say |-> "api_req_started", text |-> <<"req">>],
     [type |-> "ask", say |-> "none", text |-> <<"allow">>]}

NullTask == [null |-> TRUE]

\* the newest element of history that satisfies Test, 0 when there is none
Newest(history, Test(_)) ==
    IF \E i \in 1..Len(history) : Test(history[i])
    THEN CHOOSE i \in 1..Len(history) :
             Test(history[i]) /\ \A j \in (i + 1)..Len(history) : ~Test(history[j])
    ELSE 0

\* lines 1087-1124
getTaskResponse(task) ==
    IF task = NullTask THEN <<>>
    ELSE LET api == task.apiConversationHistory
             cline == task.clineMessages
             i == Newest(api, LAMBDA m : m.role = "assistant" /\ m.kind \in {"array", "string"})
             k == Newest(cline, LAMBDA m : m.type = "say" /\ m.say = "text")
             texts == SelectSeq(api[i].parts, LAMBDA part : part.type = "text")
         IN IF i # 0
            THEN IF api[i].kind = "array"
                 THEN JoinLines([n \in 1..Len(texts) |-> texts[n].text])
                 ELSE api[i].text
            ELSE IF k # 0 THEN cline[k].text ELSE <<>>

InitResponse ==
    /\ Quiet
    /\ call \in {Pending("getTaskResponse", task) :
                    task \in {NullTask} \cup
                             [apiConversationHistory : Texts(ApiMessages, MaxHistory),
                              clineMessages : Texts(ClineMessages, MaxHistory)]}

ResponseCall ==
    /\ call.fn = "getTaskResponse"
    /\ ~call.done
    /\ call' = Returned(call, getTaskResponse(call.arg))
    /\ UNCHANGED service

NextResponse == ResponseCall

SpecResponse == InitResponse /\ [][NextResponse]_vars

\* the text of a message: its string, or its text parts joined by newlines
TextOf(m) ==
    IF m.kind = "string" THEN m.text
    ELSE IF m.kind = "array"
         THEN LET texts == SelectSeq(m.parts, LAMBDA part : part.type = "text")
              IN JoinLines([n \in 1..Len(texts) |-> texts[n].text])
         ELSE <<>>

\* C33: getTaskResponse returns the text of the newest assistant message of
\* the message history; when that scan yields no text (there is no assistant
\* message, or the newest one is an array without a text part) it returns the
\* text of the newest text-typed entry of the display history, and it returns
\* the empty text only when neither yields a text.
C33_LastAssistantText ==
    (call.fn = "getTaskResponse" /\ call.done /\ call.arg # NullTask) =>
        LET api == call.arg.apiConversationHistory
            cline == call.arg.clineMessages
            i == Newest(api, LAMBDA m : m.role = "assistant" /\ m.kind # "none")
            k == Newest(cline, LAMBDA m : m.type = "say" /\ m.say = "text")
            scanned == IF i = 0 THEN <<>> ELSE TextOf(api[i])
            shown == IF k = 0 THEN <<>> ELSE cline[k].text
        IN call.out = IF scanned # <<>> THEN scanned ELSE shown

\* the newest assistant message is an array with a tool-use part only, the
\* display history has a text entry, and the empty text is returned
C33_NoFallbackForComposite ==
    /\ call.fn = "getTaskResponse"
    /\ call.done
    /\ call.arg # NullTask
    /\ call.arg.apiConversationHistory =
           <<ApiMessage("assistant", "array", <<Part("tool_use", <<>>)>>, <<>>)>>
    /\ call.arg.clineMessages = <<[type |-> "say", say |-> "text", text |-> <<"shown">>]>>
    /\ call.out = <<>>

------------------------------------------------------------------------------
\* Runs that follow one another while a call of an earlier run is still
\* suspended: Rule Mode starts, cancel and reset, with up to MaxOverlap
\* suspended calls.  The user continues only a run that shows PROCESSING.

IsolationCandidates == {DescList(1)}

NextIsolation ==
    \/ StartRejected
    \/ Room(MaxOverlap) /\ StartControlTask(RulePrompt)
    \/ /\ Aggregate = "PROCESSING"
       /\ Dispatches => Room(MaxOverlap)
       /\ ContinueNextTask
    \/ CancelTask
    \/ Reset
    \/ ResumeRule(IsolationCandidates, OverlapTransport)
    \/ ResumeFile

SpecIsolation == Init /\ [][NextIsolation]_vars

\* The suspended call c does not belong to the RunConfig: c is a start whose
\* discovery sub-task is not the RunConfig's, or a continueNext whose sub-task
\* is not in the RunConfig's list
Foreign(c) ==
    /\ currentTask # NoTask
    /\ IF c.pc \in {"discCreate", "discWait", "discValidate", "ruleTemplateCall"}
       THEN ~(currentTask.isRuleMode /\ SubTasksOf(Fields)[1] = c.sub)
       ELSE /\ c.pc \in {"fileCreate", "fileWait"}
            /\ \A k \in 1..Len(SubTasksOf(Fields)) : SubTasksOf(Fields)[k] # c.sub

\* the step is one of the call c: c ends or moves on
StepOf(c) == \A d \in conts' : d.id = c.id => d.pc # c.pc

\* C34: a call of start or continueNext that was suspended when its run was
\* cancelled or reset never writes to the RunConfig of a later run: a step of
\* a call that does not belong to the RunConfig leaves the RunConfig's files,
\* sub-task list and template as they are.
C34_RunIsolation ==
    [][\A c \in conts :
          (Foreign(c) /\ StepOf(c) /\ ev'.op # "start") =>
              /\ RunConfig' = RunConfig
              /\ SubTaskList' = SubTaskList]_vars

\* C35: within one run each sub-task is given to the external runtime at most
\* once: a sub-task that continueNext dispatches (it becomes RUNNING and
\* createTask is called for it) has no external task yet.
C35_DelegatedOnce ==
    [][ev'.op = "dispatch" =>
          \A k \in 1..Len(SubTaskList) :
              (/\ k <= Len(SubTaskList')
               /\ SubTaskList[k].status # "RUNNING"
               /\ SubTaskList'[k].status = "RUNNING") => ~SubTaskList[k].taskId]_vars

\* a sub-task that already has an external task is RUNNING again while the
\* call that created the first one is still waiting for it
C35_DelegatedTwice ==
    /\ ev.op = "dispatch"
    /\ \E c \in conts, d \in conts :
          /\ c.pc = "fileWait"
          /\ d.pc = "fileCreate"
          /\ c.sub = d.sub
          /\ subs[c.sub].taskId
          /\ subs[c.sub].status = "RUNNING"

\* C36: in every reachable state a sub-task of the RunConfig that is PENDING
\* is enabled and one that is CANCELLED is not enabled; so toggleTaskEnabled
\* never meets a PENDING sub-task that is not enabled (its re-enabling branch
\* for PENDING is never taken).
C36_StatusMatchesEnabled ==
    \A k \in 1..Len(SubTaskList) :
        /\ SubTaskList[k].status = "PENDING" => SubTaskList[k].enabled
        /\ SubTaskList[k].status = "CANCELLED" => ~SubTaskList[k].enabled

\* the user has just switched a sub-task: one per-file sub-task is PENDING and
\* enabled, another one is CANCELLED and not enabled
C36_Witness ==
    /\ ev.op = "toggle"
    /\ \E k \in 1..Len(SubTaskList), j \in 1..Len(SubTaskList) :
          /\ IsFile(k)
          /\ IsFile(j)
          /\ SubTaskList[k].status = "PENDING"
          /\ SubTaskList[k].enabled
          /\ SubTaskList[j].status = "CANCELLED"
          /\ ~SubTaskList[j].enabled

------------------------------------------------------------------------------
\* A run that the user drives to its end: start while nothing is going on,
\* continueNext after the previous call has returned and while the view shows
\* PROCESSING; no cancel, reset or toggle.  What a suspended call waits for
\* answers (the runtime creates the task or fails, the task leaves the
\* foreground or the wait times out, the transport answers), and the user
\* does press continue.

StartFresh ==
    /\ conts = {}
    /\ currentTask = NoTask
    /\ \E userPrompt \in StartPrompts : StartControlTask(userPrompt)

ContinueAfterReturn ==
    /\ conts = {}
    /\ Aggregate = "PROCESSING"
    /\ ContinueNextTask

Resumes ==
    \/ ResumeRule(DiscoveryCandidates, TransportResults)
    \/ ResumeLegacy(ListedFiles, TransportResults)
    \/ ResumeFile

NextLive == StartFresh \/ ContinueAfterReturn \/ Resumes

SpecLive ==
    Init /\ [][NextLive]_vars /\ WF_vars(Resumes) /\ WF_vars(ContinueAfterReturn)

\* C37: once a start has reached PROCESSING and the user keeps continuing,
\* the run eventually shows the aggregate COMPLETED, and whenever it shows
\* COMPLETED every per-file sub-task is COMPLETED or FAILED.
C37_RunCompletes ==
    /\ (ev.op = "started" /\ Aggregate = "PROCESSING") ~> (Aggregate = "COMPLETED")
    /\ [](Aggregate = "COMPLETED" =>
            \A k \in 1..Len(SubTaskList) :
                IsFile(k) => SubTaskList[k].status \in {"COMPLETED", "FAILED"})

\* the last file of a run has finished and the run has shown COMPLETED with
\* one file done and one failed
C37_Witness ==
    /\ Aggregate = "COMPLETED"
    /\ ev.op = "fileFinished"
    /\ \E k \in 1..Len(SubTaskList) : IsFile(k) /\ SubTaskList[k].status = "COMPLETED"
    /\ \E k \in 1..Len(SubTaskList) : IsFile(k) /\ SubTaskList[k].status = "FAILED"

------------------------------------------------------------------------------
\* C38: every emitted progress snapshot is well formed:
\* 0 <= currentFileIndex <= totalFiles and
\* completedCount + failedCount <= totalFiles, for the snapshots of every
\* handler, those of processSingleFile and of the catch block of
\* startControlTask included.
WellFormed(p) ==
    /\ 0 <= p.currentFileIndex
    /\ p.currentFileIndex <= p.totalFiles
    /\ p.completedCount + p.failedCount <= p.totalFiles

C38_SnapshotsWellFormed ==
    \A i \in 1..Len(ev.out) : WellFormed(ev.out[i].progress)

\* processSingleFile publishes the external task id of a sub-task in a
\* snapshot whose currentFileIndex is the initial -1
C38_TaskIdPublished ==
    /\ ev.op = "fileCreated"
    /\ ev.out # <<>>
    /\ ev.out[1].progress.currentFileIndex = -1

------------------------------------------------------------------------------
\* C39: a start() accepted after an earlier run that was not reset shows no
\* sub-task of the earlier run in its progress snapshots, and when that
\* start() fails before it has created sub-tasks of its own, a following
\* continueNext() neither dispatches a sub-task of the earlier run nor
\* reports the earlier run as completed.

\* c is the call of a start() accepted in this step, with an earlier run's
\* RunConfig still in place
StartedAfterRun(c) ==
    /\ ev'.op = "start"
    /\ currentTask # NoTask
    /\ c \in conts'
    /\ \A d \in conts : d.id # c.id

\* the last step was a start() call ending in the catch block of
\* startControlTask with the earlier run's RunConfig still in place
FailedBeforeOwnSubTasks ==
    /\ ev.op = "startFailed"
    /\ currentTask # NoTask

C39_EarlierRunHidden ==
    [][/\ \A c \in conts' :
             StartedAfterRun(c) =>
                 \A i \in 1..Len(ev'.out) :
                     \A k \in 1..Len(ev'.out[i].subTasks) :
                         ev'.out[i].subTasks[k] = c.sub
       /\ (FailedBeforeOwnSubTasks /\ ev'.op \in {"dispatch", "continue"}) =>
             /\ ev'.op = "continue"
             /\ ev'.out = <<>>]_vars

\* a Legacy run finished all its files, a later start() failed before it had
\* files of its own, and continueNext() then reported COMPLETED over the
\* sub-tasks of the finished run
C39_EarlierRunReported ==
    /\ ev.op = "continue"
    /\ ev.before = "FAILED"
    /\ Aggregate = "COMPLETED"
    /\ currentTask # NoTask
    /\ ~currentTask.isRuleMode
    /\ Len(SubTaskList) > 0
    /\ \A k \in 1..Len(SubTaskList) : SubTaskList[k].status = "COMPLETED"
    /\ \A i \in 1..Len(ev.out) : ev.out[i].subTasks = SubTasksOf(Fields)

------------------------------------------------------------------------------
\* ControlView.tsx: the start button of the view

DiscoveryKeyword == "<discovery rule keyword>"
ProcessingKeyword == "<processing rule keyword>"

\* vscode.postMessage({type, text})
Message(type, text) == [type |-> type, text |-> text]

\* handleStartTask: the message the view posts for the typed text
handleStartTask(userPrompt) ==
    LET input == Trim(userPrompt)
        hasDiscoveryRule == Includes(input, DiscoveryKeyword)
        hasProcessingRule == Includes(input, ProcessingKeyword)
    IN IF input = <<>> THEN Message("showWarning", <<"empty input">>)
       ELSE IF ~hasDiscoveryRule \/ ~hasProcessingRule
            THEN Message("showWarning", <<"use rule mode">>)
            ELSE Message("startControlTask", input)

\* every typed text of at most MaxInput tokens
TypedTexts ==
    Texts({"#", "$", " ", "\n", DiscoveryKeyword, ProcessingKeyword}, MaxInput)

InitView == Quiet /\ call \in {Pending("handleStartTask", p) : p \in TypedTexts}

\* the user presses the start button
HandleStartTask ==
    /\ call.fn = "handleStartTask"
    /\ ~call.done
    /\ call' = Returned(call, handleStartTask(call.arg))
    /\ UNCHANGED service

\* the extension host receives the startControlTask message and
\* startControlTask classifies its text
StartMessageReceived ==
    /\ call.fn = "handleStartTask"
    /\ call.done
    /\ call.out.type = "startControlTask"
    /\ call' = Returned(Pending("startControlTask", call.out.text),
                        parseRules(call.out.text))
    /\ UNCHANGED service

NextView == HandleStartTask \/ StartMessageReceived

SpecView == InitView /\ [][NextView]_vars

\* C40: every text the view's start handler forwards to the orchestrator
\* (not empty after trimming, containing both rule keywords) is classified by
\* parseRules as Rule Mode, so a run started from the view never takes the
\* Legacy Mode branch.
C40_ViewStartsRuleMode ==
    (call.fn = "startControlTask" /\ call.done) => call.out.isRuleMode

\* a forwarded text holding both keywords on lines that begin with neither
\* "#" nor "$" has been classified as Legacy Mode
C40_ForwardedAsLegacy ==
    /\ call.fn = "startControlTask"
    /\ call.done
    /\ Includes(call.arg, DiscoveryKeyword)
    /\ Includes(call.arg, ProcessingKeyword)
    /\ ~Includes(call.arg, "#")
    /\ ~call.out.isRuleMode
    /\ call.out.originalPrompt = call.arg

====
